---- MODULE Spec2Model ----
(***************************************************************************)
(* MTMalloc (kcc/sanitizers, mtmalloc/src): the size-classed small-object  *)
(* allocator, its non-FIFO quarantine and the stop-the-world scan.         *)
(*                                                                         *)
(* Addresses.  TLC integers are 32 bits wide, the allocator's addresses    *)
(* are 47 bits wide, so an address is kept as a record                     *)
(*     [tag |-> bits 40..43, r |-> half of the region, off |-> offset in   *)
(*      that half]                                                         *)
(* i.e. the address kFirstSuperPage[r] + off + tag * 2^40.  A word that is *)
(* no address of the region is NonPtr.                                     *)
(***************************************************************************)
EXTENDS Integers, Sequences, FiniteSets, TLC

(***************************************************************************)
(* Program constants.                                                      *)
(***************************************************************************)
kSuperPageSize == 524288
kNumSizeClassRanges == 2
kSizeAlignmentForSecondRange == 1024
kSizeOfLocalQuarantine == 1048576
kStateArrayAlignment == 32
kDivMulShift == 35
kPosIncrement == 1024

AVAILABLE == 0
USED_MIXED == 1
USED_DATA == 3
QUARANTINED == 5
MARKED == 7
RELEASING == 255

SCArray ==
  << 16, 32, 48, 64, 80, 96, 112, 128,
     144, 160, 176, 192, 208, 224, 240, 256,
     272, 288, 336, 368, 448, 480, 512, 576,
     640, 704, 768, 896, 1024, 1152, 1280, 1408,
     1536, 1792, 2048, 2304, 2688, 2816, 3200, 3456,
     3584, 4096, 4736, 5376, 6144, 6528, 7168, 8192,
     9216, 10240, 12288, 14336, 16384, 20480, 24576, 28672,
     32768, 40960, 49152, 57344, 65536, 73728, 81920, 98304,
     131072, 172032, 262144 >>

kNumSizeClasses == Len(SCArray)
kMaxSizeClass == SCArray[kNumSizeClasses]

(***************************************************************************)
(* Bounds of the model.                                                    *)
(***************************************************************************)
\* super-pages that may be created in one half of the region
MaxSuperPages == 5
\* user-level calls one thread makes
MaxOps == 2
MaxOpsSeq == 6
MaxOpsLive == 1
MaxOpsRel == 2
MaxReleases == 1
MaxOpsFree == 5
\* calls after the last free: at least as many as chunks can be AVAILABLE by then
MaxOpsReuse == 2 * MaxOpsFree
MaxOpsFirst == 32
DivBlock == 4096
MaxOpsAlign == 3
MaxOpsAccess == 3
MaxOpsQuar == 6
MaxOpsScope == 3
MaxAvailable == 2
MaxOpsPart == 3
\* machine words of a chunk the model keeps (the first ones)
WordsPerChunk == 1
MaxScopeLevel == 1
MaxOpsPub == 2
NearHalf == 30
MaxOpsInside == 4
MaxOpsRace == 3
MaxOpsDaemon == 4

Ranges == 0 .. (kNumSizeClassRanges - 1)
AllThreads == {1, 2}

(***************************************************************************)
(* Utilities (mtmalloc_util.h).                                            *)
(***************************************************************************)
Min(a, b) == IF a < b THEN a ELSE b

RoundUpTo(size, boundary) == ((size + boundary - 1) \div boundary) * boundary

RoundDownTo(x, boundary) == (x \div boundary) * boundary

RECURSIVE IsPowerOfTwo(_)
IsPowerOfTwo(x) ==
  IF x <= 1 THEN TRUE
  ELSE IF x % 2 = 1 THEN FALSE
  ELSE IsPowerOfTwo(x \div 2)

(***************************************************************************)
(* Division by a size class through a multiplication and a shift.         *)
(* (1 << 35) / Div and (Left * Mul) >> 35 are 64-bit computations; they    *)
(* are carried out here on 12-bit limbs so that no intermediate value      *)
(* leaves 31 bits (Left <= 2^19, Mul < 2^32).                              *)
(***************************************************************************)
\* (1ULL << Shift) / Div, Shift >= 24, as three digits in base 4096
QuotientOfPowerOfTwo(Div, Shift) ==
  LET top == 2 ^ (Shift - 24)
      r2 == top % Div
      r1 == (r2 * 4096) % Div
  IN [M2 |-> top \div Div, M1 |-> (r2 * 4096) \div Div, M0 |-> (r1 * 4096) \div Div]

\* Mul++ on the digits
PlusOne(Mul) ==
  IF Mul.M0 < 4095 THEN [Mul EXCEPT !.M0 = @ + 1]
  ELSE IF Mul.M1 < 4095 THEN [Mul EXCEPT !.M0 = 0, !.M1 = @ + 1]
  ELSE [M2 |-> Mul.M2 + 1, M1 |-> 0, M0 |-> 0]

\* the value before it is stored in the uint32_t
MulForDivWide(Div, Shift) ==
  IF IsPowerOfTwo(Div) THEN QuotientOfPowerOfTwo(Div, Shift)
  ELSE PlusOne(QuotientOfPowerOfTwo(Div, Shift))

ComputeMulForDiv_NoRoundUp(Div, Shift) == QuotientOfPowerOfTwo(Div, Shift)

\* uint32_t Mul: the digits M2 * 2^24 + M1 * 2^12 + M0 of the low 32 bits
ComputeMulForDiv(Div, Shift) ==
  [MulForDivWide(Div, Shift) EXCEPT !.M2 = @ % 256]

\* (uint64_t(Left) * DivMul) >> kDivMulShift, Left up to kSuperPageSize
DivBySizeViaMul(Left, DivMul) ==
  LET A0 == Left * DivMul.M0
      A1 == Left * DivMul.M1
      A2 == Left * DivMul.M2
  IN (A2 + ((A1 + (A0 \div 4096)) \div 4096)) \div (2 ^ (kDivMulShift - 24))

\* IsCorrectDivToMul's loop for Left from MinLeft to MaxLeft (the code starts at
\* 1), with Shift = kDivMulShift
IsCorrectDivToMul(Div, Mul, MinLeft, MaxLeft) ==
  \A Left \in MinLeft .. MaxLeft : Left \div Div = DivBySizeViaMul(Left, Mul)

\* no room set aside for the state bytes
SizeOfInlineMeta_None(NumChunks, RangeNum) == 0

SizeOfInlineMeta(NumChunks, RangeNum) ==
  IF RangeNum = 1 THEN 0 ELSE RoundUpTo(NumChunks, kStateArrayAlignment)

\* the loop counts NumChunks down from Approx and returns the first count,
\* that is the largest one, that fits with its inline state array
ComputeNumChunks(ChunkSize, RangeNum) ==
  LET Approx == kSuperPageSize \div ChunkSize
      Fits(NumChunks) ==
        SizeOfInlineMeta(NumChunks, RangeNum) + NumChunks * ChunkSize <= kSuperPageSize
  IN IF \E NumChunks \in 1 .. Approx : Fits(NumChunks)
     THEN CHOOSE NumChunks \in 1 .. Approx :
            /\ Fits(NumChunks)
            /\ \A More \in (NumChunks + 1) .. Approx : ~Fits(More)
     ELSE 0

(***************************************************************************)
(* The size class descriptors built by InitAll.  The table's sizes all     *)
(* satisfy IsCorrectDivToMul (mtmalloc_size_classes.h), so the fix-up loop *)
(* of InitAll leaves them as they are.  Class indices start at 0.          *)
(***************************************************************************)
SCDescrOf(i) ==
  LET ChunkSize == SCArray[i + 1]
      RangeNum == IF ChunkSize % kSizeAlignmentForSecondRange = 0 THEN 1 ELSE 0
  IN [RangeNum |-> RangeNum,
      NumChunks |-> ComputeNumChunks(ChunkSize, RangeNum),
      ChunkSize |-> ChunkSize,
      ChunkSizeMulDiv |-> ComputeMulForDiv(ChunkSize, kDivMulShift)]

\* the classes the model allocates from, with their descriptors
ModelClasses == {38, 41, 45, 47, 56, 58, 65, 66}
SCDescr == [i \in ModelClasses |-> SCDescrOf(i)]

\* the loop returns the first class from Idx on that holds Size, and 0 when
\* it runs off the table
FirstClassFrom(Idx, Size) ==
  IF \E i \in Idx .. (kNumSizeClasses - 1) : Size <= SCArray[i + 1]
  THEN CHOOSE i \in Idx .. (kNumSizeClasses - 1) :
         /\ Size <= SCArray[i + 1]
         /\ \A j \in Idx .. (i - 1) : Size > SCArray[j + 1]
  ELSE 0

SizeToSizeClass(Size) ==
  IF Size <= 256 THEN (((Size + 15) \div 16) - 1) % 256
  ELSE FirstClassFrom(0, Size)

(***************************************************************************)
(* State.                                                                  *)
(***************************************************************************)
VARIABLES
  Config,              \* MallocConfig: UseTag, UseShadow, UseAliases
  NumSuperPages,       \* Allocator::NumSuperPages[range]
  Meta,                \* SuperPageMetadata: size class of each super-page
  State,               \* the state byte of every chunk
  MemTag,              \* Tags' shadow: the memory tag of every chunk
  Mem,                 \* the first WordsPerChunk words of every chunk
  BytesInQuarantine,
  LastQurantineSize,
  NumScans,
  ScanPos,             \* Allocator::ScanPos[range]
  DataOnlyScopeLevel,
  Mu,                  \* Allocator::Mu: 0 or the thread that holds it
  LocalQuarantineSize, \* TLS.LocalQuarantineSize of each thread
  PerSC,               \* TLS.PerSC[class] of each thread: SP, LastIdxHint
  pc,                  \* where each thread is in the call it makes
  loc,                 \* the locals of that call
  sl,                  \* ScanLoop frames: "main" (in Scan) and "sig" (handler)
  sigPending,          \* SIGUSR2 sent to the thread and not yet delivered
  trap,                \* "none", or the message of the trap that ended the process
  threads,             \* the threads of the process
  sizes,               \* request sizes the user code passes to Allocate
  maxqs,               \* MaxQuarantineSize values passed to QuarantineAndMaybeScan
  deltas,              \* byte offsets the user code adds to a pointer it stores
  targets,             \* chunks whose addresses the user code stores
  maxops,              \* calls each thread makes
  seedTags,            \* low bytes RandR produces for the initial memory tags
  held,                \* pointers each thread got from Allocate and has not freed
  freed,               \* freed pointers whose chunk has not been allocated since
  stale,               \* freed pointers whose chunk has not been freed again since
  ret,                 \* value returned by each thread's last Allocate
  last,                \* the last free-like call: its name and whether its pointer was stale
  ops,                 \* calls made by each thread so far
  quarSince,           \* pointers passed to Quarantine since the last scan completed
  awaiting,            \* pointers whose chunk Quarantine left QUARANTINED, not flipped to AVAILABLE since
  scanQ,               \* chunks that were QUARANTINED when the scan in progress started
  scanRef,             \* those of them referenced ever since
  rel,                 \* MemoryReleaseThread: where it is in MaybeReleaseToOs, its locals
  call                 \* the last call of a function without side effects: its
                       \* name, its arguments and its result

heapVars == <<NumSuperPages, Meta, State, MemTag, Mem>>
quarVars == <<BytesInQuarantine, LastQurantineSize, NumScans, ScanPos>>
tlsVars == <<LocalQuarantineSize, PerSC>>
envVars == <<Config, threads, sizes, maxqs, deltas, targets, maxops, seedTags>>
ghostVars == <<freed, stale, ret, last, quarSince, awaiting, scanQ, scanRef>>
relVars == <<rel>>
pureVars == <<call>>
vars == <<Config, NumSuperPages, Meta, State, MemTag, Mem, BytesInQuarantine,
          LastQurantineSize, NumScans, ScanPos, DataOnlyScopeLevel, Mu,
          LocalQuarantineSize, PerSC, pc, loc, sl, sigPending, trap, threads,
          sizes, maxqs, deltas, targets, maxops, seedTags, held, freed, stale, ret, last, ops, quarSince, awaiting, scanQ,
          scanRef, rel, call>>

(***************************************************************************)
(* Addresses, tags (mtmalloc_tags.h) and chunks.                           *)
(***************************************************************************)
NonPtr == [tag |-> 0, r |-> 2, off |-> 0]
NoSP == -1

\* initial memory tags RandR may produce (uint8_t), the ones that matter
SeedTags == {0, 15, 255}

SPIdxOf(p) == p.off \div kSuperPageSize
SCDOf(r, sp) == SCDescr[Meta[r][sp + 1]]
AddressOfChunk(r, sp, Idx, SCD) ==
  [tag |-> 0, r |-> r, off |-> sp * kSuperPageSize + Idx * SCD.ChunkSize]

\* the chunk <<r, sp, idx>> whose bytes contain the (untagged) address p
ChunkIdOf(p) ==
  <<p.r, SPIdxOf(p), (p.off % kSuperPageSize) \div SCDOf(p.r, SPIdxOf(p)).ChunkSize>>

Chunks ==
  UNION {{<<r, sp, i>> : i \in 0 .. (SCDOf(r, sp).NumChunks - 1)} :
           <<r, sp>> \in {x \in Ranges \X (0 .. MaxSuperPages) : x[2] < NumSuperPages[x[1]]}}

StateOf(c) == State[c[1]][c[2] + 1][c[3] + 1]

GetAddressTag(p) == p.tag

ApplyAddressTag(p, AddrTag) ==
  IF ~Config.UseAliases THEN p ELSE [p EXCEPT !.tag = AddrTag % 16]

\* Precondition of the code: p carries no address tag (else it is in no shadow).
GetMemoryTagIn(MT, p) ==
  IF ~Config.UseShadow THEN 0
  ELSE LET c == ChunkIdOf(p)
       IN IF c[3] < SCDOf(c[1], c[2]).NumChunks
          THEN MT[c[1]][c[2] + 1][c[3] + 1] ELSE 0

GetMemoryTag(p) == GetMemoryTagIn(MemTag, p)

(***************************************************************************)
(* Initial states.  The Allocator and every TLS are zeroed (the tests      *)
(* memset them, the library's are static); MallocConfig comes from the     *)
(* environment.                                                            *)
(***************************************************************************)
LocInit ==
  [sc |-> 0, data |-> FALSE, sp |-> NoSP, retTo |-> "none", I |-> 0, idx |-> 0,
   cand |-> {}, N |-> 0, Offset |-> 0, SI |-> 0, maxq |-> 0, total |-> 0,
   limit |-> 0, viaq |-> FALSE, psr |-> 0, pssp |-> 0, psN |-> 0, newbytes |-> 0,
   done0 |-> 0, lvl |-> 0, fptr |-> NonPtr, fold |-> 0, fnew |-> 0, fq |-> FALSE]

FrameOff ==
  [st |-> "off", N |-> <<0, 0>>, r |-> 0, End |-> 0, SPIdx |-> 0, Idx |-> 0,
   W |-> 0, tgt |-> <<0, 0, 0>>]

NoCall == [fn |-> "none", arg |-> <<>>, res |-> 0]

RelIdle ==
  [pc |-> "idle", r |-> 0, sp |-> 0, i |-> 0, Ava |-> 0, NumReadyToRelease |-> 0,
   released |-> FALSE, calls |-> 0]

Configs == [UseTag : 0 .. 2, UseShadow : BOOLEAN, UseAliases : BOOLEAN]
DefaultConfig == [UseTag |-> 0, UseShadow |-> FALSE, UseAliases |-> FALSE]

InitCommon ==
  /\ NumSuperPages = [r \in Ranges |-> 0]
  /\ Meta = [r \in Ranges |-> << >>]
  /\ State = [r \in Ranges |-> << >>]
  /\ MemTag = [r \in Ranges |-> << >>]
  /\ Mem = [r \in Ranges |-> << >>]
  /\ BytesInQuarantine = 0
  /\ LastQurantineSize = 0
  /\ NumScans = 0
  /\ ScanPos = [r \in Ranges |-> 0]
  /\ DataOnlyScopeLevel = 0
  /\ Mu = 0
  /\ LocalQuarantineSize = [t \in AllThreads |-> 0]
  /\ PerSC = [t \in AllThreads |->
                [c \in ModelClasses |-> [SP |-> NoSP, LastIdxHint |-> 0]]]
  /\ pc = [t \in AllThreads |-> "idle"]
  /\ loc = [t \in AllThreads |-> LocInit]
  /\ sl = [t \in AllThreads |-> [main |-> FrameOff, sig |-> FrameOff]]
  /\ sigPending = [t \in AllThreads |-> FALSE]
  /\ trap = "none"
  /\ held = [t \in AllThreads |-> {}]
  /\ freed = {}
  /\ stale = {}
  /\ ret = [t \in AllThreads |-> NonPtr]
  /\ last = [op |-> "none", stale |-> FALSE]
  /\ ops = [t \in AllThreads |-> 0]
  /\ quarSince = {}
  /\ awaiting = {}
  /\ scanQ = {}
  /\ scanRef = {}
  /\ rel = RelIdle

\* One thread from the state after construction, every tagging
\* configuration, chunks of 172032 bytes, direct calls of Quarantine and Scan.
InitSeq ==
  /\ InitCommon
  /\ call = NoCall
  /\ Config \in Configs
  /\ threads = {1}
  /\ sizes = {172032}
  /\ maxqs = {0}
  /\ deltas = {0, 8}
  /\ targets = {<<1, 0, 1>>}
  /\ maxops = MaxOpsSeq
  /\ seedTags \in {{x} : x \in (IF Config.UseShadow THEN SeedTags ELSE {0})}

\* Two threads in the default configuration, from the state in which each of
\* them has allocated four chunks of 262144 bytes (thread 1 first, so that its
\* chunks fill super-pages 0 and 1 of range 1, thread 2's super-pages 2 and 3)
\* and has passed the first three to QuarantineAndMaybeScan: three quarters of
\* kSizeOfLocalQuarantine are in each TLS, nothing has been flushed or scanned.
WarmClass == 66
WarmChunk(sp, idx) == [tag |-> 0, r |-> 1, off |-> sp * kSuperPageSize + idx * SCArray[WarmClass + 1]]
WarmQuarantined == {WarmChunk(0, 0), WarmChunk(0, 1), WarmChunk(1, 0),
                    WarmChunk(2, 0), WarmChunk(2, 1), WarmChunk(3, 0)}

InitWarm ==
  /\ Config = DefaultConfig
  /\ threads = {1, 2}
  /\ sizes = {262144}
  /\ deltas = {0}
  /\ targets = {<<1, 0, 0>>}
  /\ seedTags = {0}
  /\ NumSuperPages = [r \in Ranges |-> IF r = 1 THEN 4 ELSE 0]
  /\ Meta = [r \in Ranges |-> IF r = 1 THEN [i \in 1 .. 4 |-> WarmClass] ELSE << >>]
  /\ State = [r \in Ranges |->
                IF r = 1 THEN <<<<QUARANTINED, QUARANTINED>>, <<QUARANTINED, USED_MIXED>>,
                                <<QUARANTINED, QUARANTINED>>, <<QUARANTINED, USED_MIXED>>>>
                ELSE << >>]
  /\ MemTag = [r \in Ranges |-> IF r = 1 THEN [i \in 1 .. 4 |-> <<0, 0>>] ELSE << >>]
  /\ Mem = [r \in Ranges |->
              IF r = 1 THEN [i \in 1 .. 4 |-> [j \in 1 .. 2 |-> [w \in 1 .. WordsPerChunk |-> NonPtr]]]
              ELSE << >>]
  /\ BytesInQuarantine = 0
  /\ LastQurantineSize = 0
  /\ NumScans = 0
  /\ ScanPos = [r \in Ranges |-> 0]
  /\ DataOnlyScopeLevel = 0
  /\ Mu = 0
  /\ LocalQuarantineSize = [t \in AllThreads |-> 3 * SCArray[WarmClass + 1]]
  /\ PerSC = [t \in AllThreads |->
                [c \in ModelClasses |->
                   IF c = WarmClass THEN [SP |-> 2 * t - 1, LastIdxHint |-> 2]
                   ELSE [SP |-> NoSP, LastIdxHint |-> 0]]]
  /\ pc = [t \in AllThreads |-> "idle"]
  /\ loc = [t \in AllThreads |-> LocInit]
  /\ sl = [t \in AllThreads |-> [main |-> FrameOff, sig |-> FrameOff]]
  /\ sigPending = [t \in AllThreads |-> FALSE]
  /\ trap = "none"
  /\ held = [t \in AllThreads |-> {WarmChunk(2 * t - 1, 1)}]
  /\ freed = WarmQuarantined
  /\ stale = WarmQuarantined
  /\ ret = [t \in AllThreads |-> WarmChunk(2 * t - 1, 1)]
  /\ last = [op |-> "Quarantine", stale |-> FALSE]
  /\ ops = [t \in AllThreads |-> 0]
  /\ quarSince = WarmQuarantined
  /\ awaiting = WarmQuarantined
  /\ scanQ = {}
  /\ scanRef = {}
  /\ rel = RelIdle
  /\ call = NoCall

Init ==
  /\ InitWarm
  /\ maxqs = {0}
  /\ maxops = MaxOps

\* The same two threads, one call each, with MaxQuarantineSize 0 or three
\* chunks: after one thread's flush the other's still exceeds the limit.
WarmMaxQ == 3 * SCArray[WarmClass + 1]

InitLive ==
  /\ InitWarm
  /\ maxqs = {0, WarmMaxQ}
  /\ maxops = MaxOpsLive

(***************************************************************************)
(* Threads.  A thread runs its signal handler, when it is in one, before   *)
(* anything else; after a trap nothing runs.                               *)
(***************************************************************************)
Running(t) == t \in threads /\ trap = "none"
InHandler(t) == sl[t].sig.st # "off"
AtMain(t, where) == Running(t) /\ ~InHandler(t) /\ pc[t] = where

SetMin_Highest(S) == CHOOSE x \in S : \A y \in S : x >= y

\* __builtin_ctz(Mask): the lowest position set in Mask
SetMin(S) == CHOOSE x \in S : \A y \in S : x <= y

\* calls of Scan that have published their result: NumScans counts the calls
\* from their NumScans++ on
ScansCompleted ==
  NumScans - Cardinality({u \in AllThreads : pc[u] \in {"scanloop", "postscan", "scan_pub"}})

EndCall(t) ==
  /\ pc' = [pc EXCEPT ![t] = "idle"]
  /\ loc' = [loc EXCEPT ![t] = LocInit]
  /\ ops' = [ops EXCEPT ![t] = @ + 1]

(***************************************************************************)
(* Allocator::Allocate, SuperPage::TryAllocate, Allocator::AllocateSlower  *)
(***************************************************************************)
UserAllocate(t, Size) ==
  /\ AtMain(t, "idle")
  /\ ops[t] < maxops
  /\ LET SC == SizeToSizeClass(Size)
     IN /\ SC \in ModelClasses
        /\ IF PerSC[t][SC].SP # NoSP
           THEN /\ pc' = [pc EXCEPT ![t] = "try_read"]
                /\ loc' = [loc EXCEPT ![t] =
                     [LocInit EXCEPT !.sc = SC, !.sp = PerSC[t][SC].SP,
                                     !.retTo = "fast",
                                     !.data = (DataOnlyScopeLevel # 0)]]
           ELSE /\ pc' = [pc EXCEPT ![t] = "slow_begin"]
                /\ loc' = [loc EXCEPT ![t] = [LocInit EXCEPT !.sc = SC]]
  /\ UNCHANGED <<heapVars, quarVars, tlsVars, envVars, relVars, pureVars, ghostVars,
                 DataOnlyScopeLevel, Mu, sl, sigPending, trap, held, ops>>

\* TryPos: the CAS AVAILABLE -> NewState on S[Pos] succeeds
TryPos_NoCompare(S, Pos) == TRUE

TryPos(S, Pos) == S[Pos + 1] = AVAILABLE

\* TryAllocate found no chunk: back in Allocate or in AllocateSlower's loop
TryAllocateNull(t) ==
  IF loc[t].retTo = "fast"
  THEN /\ pc' = [pc EXCEPT ![t] = "slow_begin"]
       /\ loc' = [loc EXCEPT ![t] = [LocInit EXCEPT !.sc = loc[t].sc]]
  ELSE /\ pc' = [pc EXCEPT ![t] = "slow_iter"]
       /\ loc' = [loc EXCEPT ![t].SI = @ + 1, ![t].cand = {}, ![t].I = 0,
                             ![t].idx = 0]

\* FindByte_PEXT is done with the 8-byte tuple at loc[t].I
NextTuple_LoopEnds(t) == TryAllocateNull(t)

NextTuple(t) ==
  IF loc[t].I + 8 < SCDescr[loc[t].sc].NumChunks
  THEN /\ pc' = [pc EXCEPT ![t] = "try_read"]
       /\ loc' = [loc EXCEPT ![t].I = @ + 8, ![t].cand = {}, ![t].idx = 0]
  ELSE TryAllocateNull(t)

\* FindByte_PEXT: load one 8-byte tuple of state bytes, take the bytes whose
\* low bit is 0 at positions below N.
FindByteLoad(t) ==
  /\ AtMain(t, "try_read")
  /\ LET l == loc[t]
         SCD == SCDescr[l.sc]
         N == SCD.NumChunks
         Hint == PerSC[t][l.sc].LastIdxHint
         NRounded == RoundUpTo(N, 8)
         Idx0 == l.I + RoundDownTo(Hint, 8)
         Idx == IF Idx0 >= NRounded THEN Idx0 - NRounded ELSE Idx0
         S == State[SCD.RangeNum][l.sp + 1]
         Mask == {b \in 0 .. 7 : Idx + b < N /\ S[Idx + b + 1] % 2 = 0}
     IN IF Hint > N
        THEN /\ trap' = "TRAP"
             /\ UNCHANGED <<pc, loc>>
        ELSE /\ trap' = trap
             /\ IF Mask = {}
                THEN NextTuple(t)
                ELSE /\ pc' = [pc EXCEPT ![t] = "try_cas"]
                     /\ loc' = [loc EXCEPT ![t].idx = Idx, ![t].cand = Mask]
  /\ UNCHANGED <<heapVars, quarVars, tlsVars, envVars, relVars, pureVars, ghostVars,
                 DataOnlyScopeLevel, Mu, sl, sigPending, held, ops>>

\* *HintPtr = Pos + 1
NewHint_PosPlus2(Pos) == Pos + 2

NewHint(Pos) == Pos + 1

\* One callback of FindByte_PEXT: TryPos on the lowest candidate; on success
\* the rest of TryAllocate and the return of Allocate.
TryAllocateCAS(t) ==
  /\ AtMain(t, "try_cas")
  /\ LET l == loc[t]
         SCD == SCDescr[l.sc]
         r == SCD.RangeNum
         Pos == l.idx + SetMin(l.cand)
         S == State[r][l.sp + 1]
         NewState == IF l.data THEN USED_DATA ELSE USED_MIXED
         Res0 == AddressOfChunk(r, l.sp, Pos, SCD)
         Res == ApplyAddressTag(Res0, GetMemoryTag(Res0))
     IN IF TryPos(S, Pos)
        THEN /\ State' = [State EXCEPT ![r][l.sp + 1][Pos + 1] = NewState]
             /\ PerSC' = [PerSC EXCEPT ![t][l.sc].LastIdxHint = NewHint(Pos)]
             /\ held' = [held EXCEPT ![t] = @ \cup {Res}]
             /\ ret' = [ret EXCEPT ![t] = Res]
             /\ freed' = {p \in freed : ChunkIdOf(p) # <<r, l.sp, Pos>>}
             /\ stale' = stale
             /\ EndCall(t)
        ELSE /\ IF l.cand = {SetMin(l.cand)}
                THEN NextTuple(t)
                ELSE /\ loc' = [loc EXCEPT ![t].cand = @ \ {SetMin(l.cand)}]
                     /\ pc' = pc
             /\ UNCHANGED <<State, PerSC, held, ret, freed, stale, ops>>
  /\ UNCHANGED <<NumSuperPages, Meta, MemTag, Mem, quarVars, envVars, relVars, pureVars,
                 LocalQuarantineSize, DataOnlyScopeLevel, Mu, sl, sigPending,
                 trap, last, quarSince, awaiting, scanQ, scanRef>>

\* AllocateSlower: N = GetNumSuperPages(range), a random Offset
AllocateSlowerBegin(t) ==
  /\ AtMain(t, "slow_begin")
  /\ LET N == NumSuperPages[SCDescr[loc[t].sc].RangeNum]
     IN \E Offset \in (IF N = 0 THEN {0} ELSE 0 .. (N - 1)) :
          loc' = [loc EXCEPT ![t].N = N, ![t].Offset = Offset, ![t].SI = 0]
  /\ pc' = [pc EXCEPT ![t] = "slow_iter"]
  /\ UNCHANGED <<heapVars, quarVars, tlsVars, envVars, relVars, pureVars, ghostVars,
                 DataOnlyScopeLevel, Mu, sl, sigPending, trap, held, ops>>

\* the iterations 'for (size_t I = 0; I < N; I++)' still has to make from I = SI
LoopRange_Empty(SI, N) == {}

LoopRange(SI, N) == SI .. (N - 1)

\* AllocateSlower's for loop up to the next super-page of the class, whose
\* TryAllocate it calls; AllocateSuperPage when the loop is over.
AllocateSlowerIter(t) ==
  /\ AtMain(t, "slow_iter")
  /\ LET l == loc[t]
         r == SCDescr[l.sc].RangeNum
         IdxAt(I) == IF I + l.Offset >= l.N THEN I + l.Offset - l.N
                     ELSE I + l.Offset
         Hits == {I \in LoopRange(l.SI, l.N) : Meta[r][IdxAt(I) + 1] = l.sc}
     IN IF Hits # {}
        THEN /\ PerSC' = [PerSC EXCEPT ![t][l.sc].SP = IdxAt(SetMin(Hits))]
             /\ loc' = [loc EXCEPT ![t].SI = SetMin(Hits),
                                   ![t].sp = IdxAt(SetMin(Hits)),
                                   ![t].retTo = "slow", ![t].I = 0,
                                   ![t].data = (DataOnlyScopeLevel # 0)]
             /\ pc' = [pc EXCEPT ![t] = "try_read"]
        ELSE /\ pc' = [pc EXCEPT ![t] = "asp_lock"]
             /\ UNCHANGED <<PerSC, loc>>
  /\ UNCHANGED <<heapVars, quarVars, LocalQuarantineSize, envVars, relVars, pureVars, ghostVars,
                 DataOnlyScopeLevel, Mu, sl, sigPending, trap, held, ops>>

(***************************************************************************)
(* Allocator::AllocateSuperPage.  The model creates at most MaxSuperPages  *)
(* per range, far from the end of the half.                                *)
(***************************************************************************)
\* ScopedLock's pthread_mutex_lock returns only when nobody holds the mutex
TryLock_NoExclusion(M) == TRUE

TryLock(M) == M = 0

\* ~ScopedLock: pthread_mutex_unlock
Unlock_StillHeld(M) == M

Unlock(M) == 0

AllocateSuperPageLock(t) ==
  /\ AtMain(t, "asp_lock")
  /\ TryLock(Mu)
  /\ NumSuperPages[SCDescr[loc[t].sc].RangeNum] < MaxSuperPages
  /\ Mu' = t
  /\ pc' = [pc EXCEPT ![t] = "asp_body"]
  /\ UNCHANGED <<heapVars, quarVars, tlsVars, envVars, relVars, pureVars, ghostVars,
                 DataOnlyScopeLevel, loc, sl, sigPending, trap, held, ops>>

\* the count AllocateSuperPage leaves in NumSuperPages[RangeNum]
Published_Skip(N) == N + 2

Published(N) == N + 1

\* AllocateSuperPage up to its atomic add: the mmap of the slot of index
\* NumSuperPages[RangeNum], SetSizeClass and the memory tags of the chunks.
AllocateSuperPage(t) ==
  /\ AtMain(t, "asp_body")
  /\ LET SC == loc[t].sc
         SCD == SCDescr[SC]
         r == SCD.RangeNum
         N == SCD.NumChunks
         Idx == NumSuperPages[r]
         Put(seq, v) == IF Len(seq) > Idx THEN [seq EXCEPT ![Idx + 1] = v] ELSE Append(seq, v)
     IN /\ Meta' = [Meta EXCEPT ![r] = Put(@, SC)]
        /\ State' = [State EXCEPT ![r] = Put(@, [i \in 1 .. N |-> AVAILABLE])]
        /\ Mem' = [Mem EXCEPT ![r] =
                     Put(@, [i \in 1 .. N |-> [w \in 1 .. WordsPerChunk |-> NonPtr]])]
        /\ \E tags \in [1 .. N -> (IF Config.UseShadow THEN seedTags ELSE {0})] :
             MemTag' = [MemTag EXCEPT ![r] = Put(@, tags)]
  /\ pc' = [pc EXCEPT ![t] = "asp_publish"]
  /\ UNCHANGED <<NumSuperPages, quarVars, tlsVars, envVars, relVars, pureVars, ghostVars,
                 DataOnlyScopeLevel, Mu, loc, sl, sigPending, trap, held, ops>>

\* AllocateSuperPage's __atomic_add_fetch and return (~ScopedLock), and the
\* store to LastIdxHint AllocateSlower makes after it
AllocateSuperPagePublish(t) ==
  /\ AtMain(t, "asp_publish")
  /\ LET SC == loc[t].sc
         r == SCDescr[SC].RangeNum
     IN /\ NumSuperPages' = [NumSuperPages EXCEPT ![r] = Published(@)]
        /\ PerSC' = [PerSC EXCEPT ![t][SC].LastIdxHint = 0]
  /\ Mu' = Unlock(Mu)
  /\ pc' = [pc EXCEPT ![t] = "slow_begin"]
  /\ UNCHANGED <<Meta, State, MemTag, Mem, quarVars, LocalQuarantineSize, envVars, relVars,
                 pureVars, ghostVars, DataOnlyScopeLevel, loc, sl, sigPending, trap, held, ops>>

(***************************************************************************)
(* Freeing: Allocator::Deallocate / Quarantine and SuperPage::Deallocate / *)
(* Quarantine.  The operators give the outcome of one call on the pointer: *)
(* the trap it ends in ("none" if it returns), the state bytes and memory  *)
(* tags it leaves, and the value SuperPage::Quarantine returns.            *)
(***************************************************************************)
IsUsed(S) == S = USED_MIXED \/ S = USED_DATA

\* SuperPage::Quarantine's choice of the new state from the new memory tag
QuarantineNewValue_Available(NewTag) == AVAILABLE

\* a choice that looks at the low four bits under UseTag = 2 as well
QuarantineNewValue_Nibble(NewTag) ==
  IF Config.UseTag \in {1, 2} /\ (NewTag % 16) # 0 THEN AVAILABLE ELSE QUARANTINED

QuarantineNewValue(NewTag) ==
  IF Config.UseTag = 1 /\ (NewTag % 16) # 0 THEN AVAILABLE
  ELSE IF Config.UseTag = 2 /\ (NewTag % 256) # 0 THEN AVAILABLE
  ELSE QUARANTINED

\* ExchangeAndCheckForDoubleFree: load, store, then the check of the old value
ExchangeAndCheckForDoubleFree_NoCheck(OldValue) == "none"

ExchangeAndCheckForDoubleFree(OldValue) ==
  IF IsUsed(OldValue) THEN "none" ELSE "DoubleFree"

\* a free that leaves the memory tag as it is
UpdateMemoryTagOnFree_Same(P) == GetMemoryTag(P)

\* the new memory tag of the chunk at (untagged) P
UpdateMemoryTagOnFree(P) ==
  IF ~Config.UseShadow THEN 0 ELSE (GetMemoryTag(P) + 1) % 256

\* the new tag leaves SuperPage::Quarantine nothing to tell the next owner of
\* the chunk from this one by, under the UseTag setting
TagExhausted(NewTag) ==
  CASE Config.UseTag = 1 -> NewTag % 16 = 0
    [] Config.UseTag = 2 -> NewTag % 256 = 0
    [] OTHER -> TRUE

\* the chunk q is referenced: a word of a USED_MIXED chunk holds an address
\* inside q's bounds
ReferencedIn(St, M, q) ==
  LET lo == q[2] * kSuperPageSize + q[3] * SCDOf(q[1], q[2]).ChunkSize
      hi == lo + SCDOf(q[1], q[2]).ChunkSize
  IN \E c \in Chunks :
       /\ St[c[1]][c[2] + 1][c[3] + 1] = USED_MIXED
       /\ \E w \in 1 .. WordsPerChunk :
            LET v == M[c[1]][c[2] + 1][c[3] + 1][w]
            IN v.tag = 0 /\ v.r = q[1] /\ lo <= v.off /\ v.off < hi

Referenced(q) == ReferencedIn(State, Mem, q)

\* a Quarantine that adds nothing to the caller's counter
QuarantineReturn_Zero(NewValue, ChunkSize) == 0

\* what SuperPage::Quarantine returns
QuarantineReturn(NewValue, ChunkSize) ==
  IF NewValue = AVAILABLE THEN 0 ELSE ChunkSize

\* a check of the index alone
ComputeStatePtrTraps_IdxOnly(Idx, Offset, SCD) == Idx >= SCD.NumChunks

\* ComputeStatePtr's two traps
ComputeStatePtrTraps(Idx, Offset, SCD) ==
  Idx * SCD.ChunkSize # Offset \/ Idx >= SCD.NumChunks

SuperPageFree(P, quarantine) ==
  LET r == P.r
      sp == SPIdxOf(P)
      SCD == SCDOf(r, sp)
      Offset == P.off % kSuperPageSize
      Idx == DivBySizeViaMul(Offset, SCD.ChunkSizeMulDiv)
  IN IF ComputeStatePtrTraps(Idx, Offset, SCD)
     THEN [trap |-> "TRAP", State |-> State, MemTag |-> MemTag, size |-> 0]
     ELSE LET NewTag == UpdateMemoryTagOnFree(P)
              NewValue == IF quarantine THEN QuarantineNewValue(NewTag)
                          ELSE AVAILABLE
              OldValue == State[r][sp + 1][Idx + 1]
          IN [trap |-> ExchangeAndCheckForDoubleFree(OldValue),
              State |-> [State EXCEPT ![r][sp + 1][Idx + 1] = NewValue],
              MemTag |-> IF Config.UseShadow
                         THEN [MemTag EXCEPT ![r][sp + 1][Idx + 1] = NewTag]
                         ELSE MemTag,
              size |-> QuarantineReturn(NewValue, SCD.ChunkSize)]

\* RemoveAddressTagAndCheckForDoubleFree, then the super-page's method
AllocatorFree(Ptr, quarantine) ==
  LET AddressTag == GetAddressTag(Ptr)
      P == ApplyAddressTag(Ptr, 0)
      MemoryTag == GetMemoryTag(P) % 16
  IN IF Config.UseShadow /\ Config.UseAliases /\ AddressTag # MemoryTag
     THEN [trap |-> "double-free", State |-> State, MemTag |-> MemTag, size |-> 0]
     ELSE SuperPageFree(P, quarantine)

\* the effect of one Deallocate or Quarantine call of thread t on Ptr
FreeCall(t, Ptr, quarantine, name) ==
  LET R == AllocatorFree(Ptr, quarantine)
  IN /\ trap' = R.trap
     /\ State' = R.State
     /\ MemTag' = R.MemTag
     /\ LocalQuarantineSize' =
          IF quarantine /\ R.trap = "none"
          THEN [LocalQuarantineSize EXCEPT ![t] = @ + R.size]
          ELSE LocalQuarantineSize
     /\ held' = [held EXCEPT ![t] = @ \ {Ptr}]
     /\ freed' = freed \cup {Ptr}
     /\ stale' = {q \in stale : ChunkIdOf(ApplyAddressTag(q, 0))
                                   # ChunkIdOf(ApplyAddressTag(Ptr, 0))} \cup {Ptr}
     /\ last' = [op |-> name, stale |-> Ptr \in freed]
     /\ quarSince' = IF quarantine THEN quarSince \cup {Ptr} ELSE quarSince
     /\ awaiting' = IF quarantine /\ R.trap = "none"
                        /\ TagExhausted(UpdateMemoryTagOnFree(ApplyAddressTag(Ptr, 0)))
                    THEN awaiting \cup {Ptr} ELSE awaiting
     /\ scanRef' = {q \in scanRef : ReferencedIn(R.State, Mem, q)}

UserDeallocate(t, Ptr) ==
  /\ AtMain(t, "idle")
  /\ ops[t] < maxops
  /\ Ptr \in held[t]
  /\ FreeCall(t, Ptr, FALSE, "Deallocate")
  /\ EndCall(t)
  /\ UNCHANGED <<NumSuperPages, Meta, Mem, quarVars, PerSC, envVars, relVars, pureVars,
                 DataOnlyScopeLevel, Mu, sl, sigPending, ret, scanQ>>

UserQuarantine(t, Ptr) ==
  /\ AtMain(t, "idle")
  /\ ops[t] < maxops
  /\ Ptr \in held[t]
  /\ FreeCall(t, Ptr, TRUE, "Quarantine")
  /\ EndCall(t)
  /\ UNCHANGED <<NumSuperPages, Meta, Mem, quarVars, PerSC, envVars, relVars, pureVars,
                 DataOnlyScopeLevel, Mu, sl, sigPending, ret, scanQ>>

\* a second free of a pointer whose chunk has not been allocated since
UserFreeAgain(t, Ptr, quarantine) ==
  /\ AtMain(t, "idle")
  /\ ops[t] < maxops
  /\ Ptr \in freed
  /\ FreeCall(t, Ptr, quarantine, IF quarantine THEN "Quarantine" ELSE "Deallocate")
  /\ EndCall(t)
  /\ UNCHANGED <<NumSuperPages, Meta, Mem, quarVars, PerSC, envVars, relVars, pureVars,
                 DataOnlyScopeLevel, Mu, sl, sigPending, ret, scanQ>>

\* Deallocate or Quarantine in two steps, for callers that run at the same
\* time.  The first step is the call up to ExchangeAndCheckForDoubleFree's
\* load: the comparison of the tags, ComputeStatePtr, UpdateMemoryTagOnFree
\* and the __atomic_load_n of the state byte.
FreeLoad(t, Ptr, quarantine) ==
  /\ AtMain(t, "idle")
  /\ ops[t] < maxops
  /\ LET R == AllocatorFree(Ptr, quarantine)
         P == ApplyAddressTag(Ptr, 0)
         c == ChunkIdOf(P)
     IN IF R.trap \in {"TRAP", "double-free"}
        THEN /\ trap' = R.trap
             /\ EndCall(t)
             /\ UNCHANGED MemTag
        ELSE /\ MemTag' = R.MemTag
             /\ pc' = [pc EXCEPT ![t] = "free_store"]
             /\ loc' = [loc EXCEPT ![t] = [LocInit EXCEPT !.fptr = Ptr, !.fold = StateOf(c),
                                                          !.fnew = R.State[c[1]][c[2] + 1][c[3] + 1],
                                                          !.fq = quarantine]]
             /\ UNCHANGED <<trap, ops>>
  /\ UNCHANGED <<NumSuperPages, Meta, State, Mem, quarVars, tlsVars, envVars, relVars, pureVars,
                 ghostVars, DataOnlyScopeLevel, Mu, sl, sigPending, held>>

\* The second step: the __atomic_store_n of the new state, the test of the
\* value loaded, and the return.
FreeStore(t) ==
  /\ AtMain(t, "free_store")
  /\ LET l == loc[t]
         c == ChunkIdOf(ApplyAddressTag(l.fptr, 0))
         res == ExchangeAndCheckForDoubleFree(l.fold)
     IN /\ State' = [State EXCEPT ![c[1]][c[2] + 1][c[3] + 1] = l.fnew]
        /\ trap' = res
        /\ LocalQuarantineSize' =
             IF l.fq /\ res = "none"
             THEN [LocalQuarantineSize EXCEPT
                     ![t] = @ + QuarantineReturn(l.fnew, SCDOf(c[1], c[2]).ChunkSize)]
             ELSE LocalQuarantineSize
        /\ held' = [u \in AllThreads |-> held[u] \ {l.fptr}]
        /\ freed' = freed \cup {l.fptr}
        /\ last' = [op |-> IF l.fq THEN "Quarantine" ELSE "Deallocate", stale |-> l.fptr \in freed]
  /\ EndCall(t)
  /\ UNCHANGED <<NumSuperPages, Meta, MemTag, Mem, quarVars, PerSC, envVars, relVars, pureVars,
                 stale, ret, quarSince, awaiting, scanQ, scanRef,
                 DataOnlyScopeLevel, Mu, sl, sigPending>>

\* Deallocate or Quarantine of an address of the thread's own making, inside
\* a super-page that exists
UserFreeInside(t, P, quarantine) ==
  /\ AtMain(t, "idle")
  /\ ops[t] < maxops
  /\ FreeCall(t, P, quarantine, IF quarantine THEN "Quarantine" ELSE "Deallocate")
  /\ EndCall(t)
  /\ UNCHANGED <<NumSuperPages, Meta, Mem, quarVars, PerSC, envVars, relVars, pureVars,
                 DataOnlyScopeLevel, Mu, sl, sigPending, ret, scanQ>>

(***************************************************************************)
(* Allocator::QuarantineAndMaybeScan                                       *)
(***************************************************************************)
QuarantineAndMaybeScan(t, Ptr, MaxQuarantineSize) ==
  /\ AtMain(t, "idle")
  /\ ops[t] < maxops
  /\ Ptr \in held[t]
  /\ FreeCall(t, Ptr, TRUE, "Quarantine")
  /\ IF trap' = "none" /\ LocalQuarantineSize'[t] >= kSizeOfLocalQuarantine
     THEN /\ pc' = [pc EXCEPT ![t] = "q_flush"]
          /\ loc' = [loc EXCEPT ![t] = [LocInit EXCEPT !.maxq = MaxQuarantineSize]]
          /\ ops' = ops
     ELSE EndCall(t)
  /\ UNCHANGED <<NumSuperPages, Meta, Mem, quarVars, PerSC, envVars, relVars, pureVars,
                 DataOnlyScopeLevel, Mu, sl, sigPending, ret, scanQ>>

\* TotalQuarantineSize = add_fetch(BytesInQuarantine, local); local = 0
QuarantineFlush(t) ==
  /\ AtMain(t, "q_flush")
  /\ BytesInQuarantine' = BytesInQuarantine + LocalQuarantineSize[t]
  /\ loc' = [loc EXCEPT ![t].total = BytesInQuarantine', ![t].done0 = ScansCompleted]
  /\ LocalQuarantineSize' = [LocalQuarantineSize EXCEPT ![t] = 0]
  /\ pc' = [pc EXCEPT ![t] = "q_limit"]
  /\ UNCHANGED <<heapVars, LastQurantineSize, NumScans, ScanPos, PerSC, envVars, relVars, pureVars,
                 ghostVars, DataOnlyScopeLevel, Mu, sl, sigPending, trap, held, ops>>

\* Limit = MaxQuarantineSize + LastQurantineSize; if (Total > Limit) ...
QuarantineLimit(t) ==
  /\ AtMain(t, "q_limit")
  /\ LET Limit == loc[t].maxq + LastQurantineSize
     IN IF loc[t].total > Limit
        THEN /\ pc' = [pc EXCEPT ![t] = "q_lock"]
             /\ loc' = [loc EXCEPT ![t].limit = Limit]
             /\ ops' = ops
        ELSE EndCall(t)
  /\ UNCHANGED <<heapVars, quarVars, tlsVars, envVars, relVars, pureVars, ghostVars,
                 DataOnlyScopeLevel, Mu, sl, sigPending, trap, held>>

QuarantineLock(t) ==
  /\ AtMain(t, "q_lock")
  /\ TryLock(Mu)
  /\ Mu' = t
  /\ pc' = [pc EXCEPT ![t] = "q_recheck"]
  /\ UNCHANGED <<heapVars, quarVars, tlsVars, envVars, relVars, pureVars, ghostVars,
                 DataOnlyScopeLevel, loc, sl, sigPending, trap, held, ops>>

\* if (load(BytesInQuarantine) < Limit) return;  (the lock is released)
BelowLimit_Always(Bytes, Limit) == TRUE

BelowLimit(Bytes, Limit) == Bytes < Limit

QuarantineRecheck(t) ==
  /\ AtMain(t, "q_recheck")
  /\ IF BelowLimit(BytesInQuarantine, loc[t].limit)
     THEN /\ Mu' = Unlock(Mu)
          /\ EndCall(t)
     ELSE /\ pc' = [pc EXCEPT ![t] = "scan_start"]
          /\ loc' = [loc EXCEPT ![t].viaq = TRUE]
          /\ UNCHANGED <<Mu, ops>>
  /\ UNCHANGED <<heapVars, quarVars, tlsVars, envVars, relVars, pureVars, ghostVars,
                 DataOnlyScopeLevel, sl, sigPending, trap, held>>

(***************************************************************************)
(* Allocator::Scan: reset of ScanPos, KillAllThreadsButMyself, NumScans++, *)
(* then ScanLoop in the caller, PostScan, and the publication of the       *)
(* counters.  A thread that got SIGUSR2 runs ScanLoop in SignalHandler.    *)
(***************************************************************************)
FrameBegin ==
  [FrameOff EXCEPT !.st = "fetch", !.N = <<NumSuperPages[0], NumSuperPages[1]>>]

\* direct call of Allocator::Scan
UserScan(t) ==
  /\ AtMain(t, "idle")
  /\ ops[t] < maxops
  /\ pc' = [pc EXCEPT ![t] = "scan_start"]
  /\ loc' = [loc EXCEPT ![t] = LocInit]
  /\ UNCHANGED <<heapVars, quarVars, tlsVars, envVars, relVars, pureVars, ghostVars,
                 DataOnlyScopeLevel, Mu, sl, sigPending, trap, held, ops>>

\* IterateTIDs lists the threads of the process; TGKill queues SIGUSR2
KillAllThreadsButMyself(t) ==
  [u \in AllThreads |-> IF u \in threads /\ u # t THEN TRUE ELSE sigPending[u]]

ScanStart(t) ==
  /\ AtMain(t, "scan_start")
  /\ ScanPos' = [r \in Ranges |-> 0]
  /\ sigPending' = KillAllThreadsButMyself(t)
  /\ NumScans' = NumScans + 1
  /\ sl' = [sl EXCEPT ![t].main = FrameBegin]
  /\ pc' = [pc EXCEPT ![t] = "scanloop"]
  /\ scanQ' = {c \in Chunks : StateOf(c) = QUARANTINED}
  /\ scanRef' = {c \in Chunks : StateOf(c) = QUARANTINED /\ Referenced(c)}
  /\ UNCHANGED <<heapVars, BytesInQuarantine, LastQurantineSize, tlsVars,
                 envVars, relVars, pureVars, freed, stale, ret, last, quarSince, awaiting,
                 DataOnlyScopeLevel, Mu, loc, trap, held, ops>>

\* the kernel delivers the queued SIGUSR2: SignalHandler -> ScanLoop
SignalHandler(u) ==
  /\ Running(u)
  /\ sigPending[u]
  /\ ~InHandler(u)
  /\ sigPending' = [sigPending EXCEPT ![u] = FALSE]
  /\ sl' = [sl EXCEPT ![u].sig = FrameBegin]
  /\ UNCHANGED <<heapVars, quarVars, tlsVars, envVars, relVars, pureVars, ghostVars,
                 DataOnlyScopeLevel, Mu, pc, loc, trap, held, ops>>

\* the ScanLoop frame thread t is executing, if any
Lvl(t) == IF InHandler(t) THEN "sig" ELSE "main"
Frame(t) == sl[t][Lvl(t)]
InScanLoop(t, st) ==
  /\ Running(t)
  /\ InHandler(t) \/ pc[t] = "scanloop"
  /\ Frame(t).st = st

\* the first super-page PostScan visits from <<r, sp>> on, or "done"
PostScanAt(r, sp) ==
  IF sp < NumSuperPages[r] THEN [done |-> FALSE, r |-> r, sp |-> sp]
  ELSE IF r = 0 /\ NumSuperPages[1] > 0 THEN [done |-> FALSE, r |-> 1, sp |-> 0]
  ELSE [done |-> TRUE, r |-> r, sp |-> sp]

\* ScanLoop returns: the handler returns to the interrupted code, Scan goes
\* on to PostScan
ScanLoopReturn(t) ==
  IF InHandler(t)
  THEN /\ sl' = [sl EXCEPT ![t].sig = FrameOff]
       /\ UNCHANGED <<pc, loc>>
  ELSE /\ sl' = [sl EXCEPT ![t].main = FrameOff]
       /\ LET nx == PostScanAt(0, 0)
          IN /\ pc' = [pc EXCEPT ![t] = IF nx.done THEN "scan_pub" ELSE "postscan"]
             /\ loc' = [loc EXCEPT ![t].psr = nx.r, ![t].pssp = nx.sp,
                                   ![t].newbytes = 0]

\* Pos = fetch_add(ScanPos[RangeNum], kPosIncrement); if (Pos >= N) break
ScanLoopFetch(t) ==
  /\ InScanLoop(t, "fetch")
  /\ LET f == Frame(t)
         Pos == ScanPos[f.r]
         N == f.N[f.r + 1]
     IN /\ ScanPos' = [ScanPos EXCEPT ![f.r] = Pos + kPosIncrement]
        /\ IF Pos >= N
           THEN IF f.r + 1 < kNumSizeClassRanges
                THEN /\ sl' = [sl EXCEPT ![t][Lvl(t)].r = f.r + 1]
                     /\ UNCHANGED <<pc, loc>>
                ELSE ScanLoopReturn(t)
           ELSE /\ sl' = [sl EXCEPT ![t][Lvl(t)] =
                            [f EXCEPT !.st = "chunk", !.End = Min(N, Pos + kPosIncrement),
                                      !.SPIdx = Pos, !.Idx = 0, !.W = 0]]
                /\ UNCHANGED <<pc, loc>>
  /\ UNCHANGED <<heapVars, BytesInQuarantine, LastQurantineSize, NumScans,
                 tlsVars, envVars, relVars, pureVars, ghostVars, DataOnlyScopeLevel, Mu,
                 sigPending, trap, held, ops>>

\* the frame after the word f.W of chunk f.Idx (or the whole chunk) is done
Advance(f, wholeChunk) ==
  LET NumChunks == SCDOf(f.r, f.SPIdx).NumChunks
  IN IF ~wholeChunk /\ f.W + 1 < WordsPerChunk
     THEN [f EXCEPT !.st = "chunk", !.W = f.W + 1]
     ELSE IF f.Idx + 1 < NumChunks
     THEN [f EXCEPT !.st = "chunk", !.Idx = f.Idx + 1, !.W = 0]
     ELSE IF f.SPIdx + 1 < f.End
     THEN [f EXCEPT !.st = "chunk", !.SPIdx = f.SPIdx + 1, !.Idx = 0, !.W = 0]
     ELSE [f EXCEPT !.st = "fetch", !.Idx = 0, !.W = 0, !.SPIdx = 0, !.End = 0]

\* MarkAllLivePointers' range test on a loaded word
InSuperPageRegion(Value, N) ==
  /\ Value.tag = 0
  /\ Value.r \in Ranges
  /\ Value.off < N[Value.r + 1] * kSuperPageSize

\* SuperPage::Mark up to its load: the chunk whose state byte it would store
\* MARKED into, or << >>
Mark(Value) ==
  LET sp == SPIdxOf(Value)
      SCD == SCDOf(Value.r, sp)
      Idx == DivBySizeViaMul(Value.off % kSuperPageSize, SCD.ChunkSizeMulDiv)
  IN IF Idx >= SCD.NumChunks THEN << >>
     ELSE IF State[Value.r][sp + 1][Idx + 1] = QUARANTINED
     THEN <<Value.r, sp, Idx>>
     ELSE << >>

\* the chunks MarkAllLivePointers reads: if (S[Idx] == USED_MIXED)
ReadsAnyChunk(S) == TRUE
ReadsChunk(S) == S = USED_MIXED

\* MarkAllLivePointers on one chunk: the test of its state byte and, for a
\* USED_MIXED chunk, the load of one word and Mark's load
MarkAllLivePointers(t) ==
  /\ InScanLoop(t, "chunk")
  /\ LET f == Frame(t)
         S == State[f.r][f.SPIdx + 1][f.Idx + 1]
         Value == Mem[f.r][f.SPIdx + 1][f.Idx + 1][f.W + 1]
     IN IF ~ReadsChunk(S)
        THEN sl' = [sl EXCEPT ![t][Lvl(t)] = Advance(f, TRUE)]
        ELSE IF InSuperPageRegion(Value, f.N) /\ Mark(Value) # << >>
        THEN sl' = [sl EXCEPT ![t][Lvl(t)] = [f EXCEPT !.st = "store", !.tgt = Mark(Value)]]
        ELSE sl' = [sl EXCEPT ![t][Lvl(t)] = Advance(f, FALSE)]
  /\ UNCHANGED <<heapVars, quarVars, tlsVars, envVars, relVars, pureVars, ghostVars,
                 DataOnlyScopeLevel, Mu, pc, loc, sigPending, trap, held, ops>>

\* SuperPage::Mark's store of MARKED
MarkStore(t) ==
  /\ InScanLoop(t, "store")
  /\ LET f == Frame(t)
         c == f.tgt
     IN /\ State' = [State EXCEPT ![c[1]][c[2] + 1][c[3] + 1] = MARKED]
        /\ sl' = [sl EXCEPT ![t][Lvl(t)] = [Advance(f, FALSE) EXCEPT !.tgt = <<0, 0, 0>>]]
  /\ scanRef' = {q \in scanRef : ReferencedIn(State', Mem, q)}
  /\ UNCHANGED <<NumSuperPages, Meta, MemTag, Mem, quarVars, tlsVars, envVars, relVars, pureVars,
                 freed, stale, ret, last, quarSince, awaiting, scanQ,
                 DataOnlyScopeLevel, Mu, pc, loc, sigPending, trap, held, ops>>

\* SuperPage::MoveFromQuarantineToAvailable on one state byte
MoveFromQuarantineToAvailable(S) ==
  LET S1 == IF S = QUARANTINED THEN AVAILABLE ELSE S
  IN IF S1 = MARKED THEN QUARANTINED ELSE S1

CountQuarantined(SS) == Cardinality({i \in DOMAIN SS : SS[i] = QUARANTINED})

\* PostScan on one super-page
PostScan(t) ==
  /\ AtMain(t, "postscan")
  /\ LET r == loc[t].psr
         sp == loc[t].pssp
         SCD == SCDOf(r, sp)
         Old == State[r][sp + 1]
         New == [i \in DOMAIN Old |-> MoveFromQuarantineToAvailable(Old[i])]
         NowInQuorantine == CountQuarantined(New)
         nx == PostScanAt(r, sp + 1)
     IN /\ State' = [State EXCEPT ![r][sp + 1] = New]
        /\ awaiting' = {p \in awaiting :
                          LET c == ChunkIdOf([p EXCEPT !.tag = 0])
                          IN ~(c[1] = r /\ c[2] = sp /\ Old[c[3] + 1] = QUARANTINED)}
        /\ pc' = [pc EXCEPT ![t] = IF nx.done THEN "scan_pub" ELSE "postscan"]
        /\ loc' = [loc EXCEPT ![t].psr = nx.r, ![t].pssp = nx.sp,
                              ![t].newbytes = @ + SCD.ChunkSize * NowInQuorantine]
  /\ UNCHANGED <<NumSuperPages, Meta, MemTag, Mem, quarVars, tlsVars, envVars, relVars, pureVars,
                 freed, stale, ret, last, quarSince, scanQ, scanRef, DataOnlyScopeLevel,
                 Mu, sl, sigPending, trap, held, ops>>

\* LastQurantineSize = BytesInQuarantine = NewBytesInQuarantine
ScanPublish(t) ==
  /\ AtMain(t, "scan_pub")
  /\ BytesInQuarantine' = loc[t].newbytes
  /\ LastQurantineSize' = loc[t].newbytes
  /\ pc' = [pc EXCEPT ![t] = "scan_ret"]
  /\ quarSince' = {}
  /\ UNCHANGED <<heapVars, NumScans, ScanPos, tlsVars, envVars, relVars, pureVars, freed, stale, ret,
                 last, awaiting, scanQ, scanRef, DataOnlyScopeLevel, Mu, loc, sl,
                 sigPending, trap, held, ops>>

\* Scan returns; QuarantineAndMaybeScan's ScopedLock is released
ScanReturn(t) ==
  /\ AtMain(t, "scan_ret")
  /\ Mu' = IF loc[t].viaq THEN Unlock(Mu) ELSE Mu
  /\ scanQ' = {}
  /\ scanRef' = {}
  /\ EndCall(t)
  /\ UNCHANGED <<heapVars, quarVars, tlsVars, envVars, relVars, pureVars, freed, stale, ret, last,
                 quarSince, awaiting, DataOnlyScopeLevel, sl, sigPending, trap,
                 held>>

(***************************************************************************)
(* Allocator::MemoryReleaseThread and SuperPage::MaybeReleaseToOs, one     *)
(* state byte per step.                                                    *)
(***************************************************************************)
\* one iteration of MemoryReleaseThread: the super-page Idx of range RangeNum
MemoryReleaseThread(RangeNum, Idx) ==
  /\ trap = "none"
  /\ rel.pc = "idle"
  /\ rel.calls < MaxReleases
  /\ Idx < NumSuperPages[RangeNum]
  /\ rel' = [RelIdle EXCEPT !.pc = "count", !.r = RangeNum, !.sp = Idx,
                            !.calls = rel.calls + 1]
  /\ UNCHANGED <<heapVars, quarVars, tlsVars, envVars, pureVars, ghostVars,
                 DataOnlyScopeLevel, Mu, pc, loc, sl, sigPending, trap, held, ops>>

\* CountAvailable, and 'if (Ava != NumChunks) return'
ReleaseCount ==
  /\ trap = "none"
  /\ rel.pc = "count"
  /\ LET N == SCDOf(rel.r, rel.sp).NumChunks
         Ava == rel.Ava + (IF State[rel.r][rel.sp + 1][rel.i + 1] = AVAILABLE THEN 1 ELSE 0)
     IN IF rel.i + 1 < N
        THEN rel' = [rel EXCEPT !.i = @ + 1, !.Ava = Ava]
        ELSE rel' = [rel EXCEPT !.i = 0, !.Ava = Ava,
                                !.pc = IF Ava # N THEN "ret" ELSE "cas"]
  /\ UNCHANGED <<heapVars, quarVars, tlsVars, envVars, pureVars, ghostVars,
                 DataOnlyScopeLevel, Mu, pc, loc, sl, sigPending, trap, held, ops>>

\* a test that lets every count pass
ReleaseReady_Always(NumReadyToRelease, NumChunks) == TRUE

\* 'if (NumReadyToRelease == NumChunks)'
ReleaseReady(NumReadyToRelease, NumChunks) == NumReadyToRelease = NumChunks

\* compare_exchange AVAILABLE -> RELEASING on one state byte
ReleaseCAS ==
  /\ trap = "none"
  /\ rel.pc = "cas"
  /\ LET N == SCDOf(rel.r, rel.sp).NumChunks
         ok == State[rel.r][rel.sp + 1][rel.i + 1] = AVAILABLE
         Ready == rel.NumReadyToRelease + (IF ok THEN 1 ELSE 0)
     IN /\ State' = IF ok THEN [State EXCEPT ![rel.r][rel.sp + 1][rel.i + 1] = RELEASING]
                    ELSE State
        /\ IF rel.i + 1 < N
           THEN rel' = [rel EXCEPT !.i = @ + 1, !.NumReadyToRelease = Ready]
           ELSE rel' = [rel EXCEPT !.i = 0, !.NumReadyToRelease = Ready,
                                   !.pc = IF ReleaseReady(Ready, N) THEN "madvise" ELSE "restore"]
  /\ UNCHANGED <<NumSuperPages, Meta, MemTag, Mem, quarVars, tlsVars, envVars, pureVars,
                 ghostVars, DataOnlyScopeLevel, Mu, pc, loc, sl, sigPending, trap,
                 held, ops>>

\* what madvise(MADV_DONTNEED) leaves in a page: zeroes in a MAP_PRIVATE
\* mapping, the contents it had in a MAP_SHARED one (the mapping is shared
\* when UseAliases is set)
PageAfterDontNeed(Old, Zero) == IF Config.UseAliases THEN Old ELSE Zero

\* madvise(this, kSuperPageSize, MADV_DONTNEED): the chunks and, in range 0,
\* the state bytes are in the super-page
Madvise ==
  /\ trap = "none"
  /\ rel.pc = "madvise"
  /\ LET r == rel.r
         sp == rel.sp
         N == SCDOf(r, sp).NumChunks
     IN /\ Mem' = [Mem EXCEPT ![r][sp + 1] =
                     PageAfterDontNeed(@, [i \in 1 .. N |-> [w \in 1 .. WordsPerChunk |-> NonPtr]])]
        /\ State' = IF r = 1 THEN State
                    ELSE [State EXCEPT ![r][sp + 1] =
                            PageAfterDontNeed(@, [i \in 1 .. N |-> AVAILABLE])]
        /\ rel' = IF r = 1 THEN [rel EXCEPT !.pc = "store", !.i = 0]
                  ELSE [rel EXCEPT !.pc = "ret", !.i = 0, !.released = TRUE]
  /\ scanRef' = {q \in scanRef : ReferencedIn(State', Mem', q)}
  /\ UNCHANGED <<NumSuperPages, Meta, MemTag, quarVars, tlsVars, envVars, pureVars, freed, stale,
                 ret, last, quarSince, awaiting, scanQ, DataOnlyScopeLevel, Mu, pc,
                 loc, sl, sigPending, trap, held, ops>>

\* range 1, after madvise: store AVAILABLE into one state byte
ReleaseStore ==
  /\ trap = "none"
  /\ rel.pc = "store"
  /\ State' = [State EXCEPT ![rel.r][rel.sp + 1][rel.i + 1] = AVAILABLE]
  /\ IF rel.i + 1 < SCDOf(rel.r, rel.sp).NumChunks
     THEN rel' = [rel EXCEPT !.i = @ + 1]
     ELSE rel' = [rel EXCEPT !.i = 0, !.pc = "ret", !.released = TRUE]
  /\ UNCHANGED <<NumSuperPages, Meta, MemTag, Mem, quarVars, tlsVars, envVars, pureVars,
                 ghostVars, DataOnlyScopeLevel, Mu, pc, loc, sl, sigPending, trap,
                 held, ops>>

\* a loop that leaves the state bytes as they are
Restored_Keep(S) == S

\* 'if (load(S) == RELEASING) store(S, AVAILABLE)'
Restored(S) == IF S = RELEASING THEN AVAILABLE ELSE S

\* not every CAS succeeded: a state byte that is RELEASING goes back to AVAILABLE
ReleaseRestore ==
  /\ trap = "none"
  /\ rel.pc = "restore"
  /\ State' = [State EXCEPT ![rel.r][rel.sp + 1][rel.i + 1] = Restored(@)]
  /\ IF rel.i + 1 < SCDOf(rel.r, rel.sp).NumChunks
     THEN rel' = [rel EXCEPT !.i = @ + 1]
     ELSE rel' = [rel EXCEPT !.i = 0, !.pc = "ret"]
  /\ UNCHANGED <<NumSuperPages, Meta, MemTag, Mem, quarVars, tlsVars, envVars, pureVars,
                 ghostVars, DataOnlyScopeLevel, Mu, pc, loc, sl, sigPending, trap,
                 held, ops>>

\* MaybeReleaseToOs returns
ReleaseReturn ==
  /\ trap = "none"
  /\ rel.pc = "ret"
  /\ rel' = [RelIdle EXCEPT !.calls = rel.calls]
  /\ UNCHANGED <<heapVars, quarVars, tlsVars, envVars, pureVars, ghostVars,
                 DataOnlyScopeLevel, Mu, pc, loc, sl, sigPending, trap, held, ops>>

(***************************************************************************)
(* User code: stores into a chunk it holds, DataOnlyScope.                 *)
(***************************************************************************)
KnownPointers ==
  {q \in (UNION {held[u] : u \in threads}) \cup freed :
     ChunkIdOf([q EXCEPT !.tag = 0]) \in targets}

\* what the program may have in a word: no pointer, or a known pointer,
\* with or without its address tag, plus an offset
WriteValues ==
  {NonPtr} \cup
  UNION {{[q EXCEPT !.off = @ + d], [q EXCEPT !.off = @ + d, !.tag = 0]} :
           <<q, d>> \in KnownPointers \X deltas}

UserWrite(t, Ptr, W, Value) ==
  /\ AtMain(t, "idle")
  /\ ops[t] < maxops
  /\ Ptr \in held[t]
  /\ LET c == ChunkIdOf([Ptr EXCEPT !.tag = 0])
     IN /\ Mem[c[1]][c[2] + 1][c[3] + 1][W] # Value
        /\ Mem' = [Mem EXCEPT ![c[1]][c[2] + 1][c[3] + 1][W] = Value]
  /\ scanRef' = {q \in scanRef : ReferencedIn(State, Mem', q)}
  /\ EndCall(t)
  /\ UNCHANGED <<NumSuperPages, Meta, State, MemTag, quarVars, tlsVars, envVars, relVars, pureVars,
                 freed, stale, ret, last, quarSince, awaiting, scanQ,
                 DataOnlyScopeLevel, Mu, sl, sigPending, trap, held>>

\* DataOnlyScopeLevel is a size_t: its values are kept modulo 2^64, with -1
\* for 2^64 - 1, the value a decrement of 0 leaves
ScopeArgs == {-1, 0, 1, 2}

\* Allocator::DataOnlyScope(level) up to its first load of the counter, which
\* is a plain size_t shared by all threads: the dispatch on level, for -1 the
\* test !DataOnlyScopeLevel, and the value the increment or decrement starts
\* from
DataOnlyScope(t, level) ==
  /\ AtMain(t, "idle")
  /\ ops[t] < maxops
  /\ level = 1 => DataOnlyScopeLevel < MaxScopeLevel
  /\ IF level \in {1, -1} /\ ~(level = -1 /\ DataOnlyScopeLevel = 0)
     THEN /\ pc' = [pc EXCEPT ![t] = IF level = 1 THEN "scope_inc" ELSE "scope_dec"]
          /\ loc' = [loc EXCEPT ![t] = [LocInit EXCEPT !.lvl = DataOnlyScopeLevel]]
          /\ UNCHANGED <<trap, ops>>
     ELSE /\ trap' = "TRAP"
          /\ EndCall(t)
  /\ UNCHANGED <<heapVars, quarVars, tlsVars, envVars, relVars, pureVars, ghostVars,
                 DataOnlyScopeLevel, Mu, sl, sigPending, held>>

\* DataOnlyScopeLevel++ and DataOnlyScopeLevel-- are not atomic: the build may
\* load the counter again after another thread has stored into it
DataOnlyScopeLoad(t) ==
  /\ Running(t) /\ ~InHandler(t)
  /\ pc[t] \in {"scope_inc", "scope_dec"}
  /\ loc[t].lvl # DataOnlyScopeLevel
  /\ loc' = [loc EXCEPT ![t].lvl = DataOnlyScopeLevel]
  /\ UNCHANGED <<heapVars, quarVars, tlsVars, envVars, relVars, pureVars, ghostVars,
                 DataOnlyScopeLevel, Mu, pc, sl, sigPending, trap, held, ops>>

\* the store of DataOnlyScopeLevel++ or DataOnlyScopeLevel--
DataOnlyScopeStore(t) ==
  /\ Running(t) /\ ~InHandler(t)
  /\ pc[t] \in {"scope_inc", "scope_dec"}
  /\ DataOnlyScopeLevel' = IF pc[t] = "scope_inc" THEN loc[t].lvl + 1 ELSE loc[t].lvl - 1
  /\ EndCall(t)
  /\ UNCHANGED <<heapVars, quarVars, tlsVars, envVars, relVars, pureVars, ghostVars,
                 Mu, sl, sigPending, trap, held>>

(***************************************************************************)
(* The specifications.                                                     *)
(***************************************************************************)
AllocSteps(t) ==
  \/ \E Size \in sizes : UserAllocate(t, Size)
  \/ FindByteLoad(t)
  \/ TryAllocateCAS(t)
  \/ AllocateSlowerBegin(t)
  \/ AllocateSlowerIter(t)
  \/ AllocateSuperPageLock(t)
  \/ AllocateSuperPage(t)
  \/ AllocateSuperPagePublish(t)

ScanSteps(t) ==
  \/ ScanStart(t)
  \/ ScanLoopFetch(t)
  \/ MarkAllLivePointers(t)
  \/ MarkStore(t)
  \/ PostScan(t)
  \/ ScanPublish(t)
  \/ ScanReturn(t)

QuarantineSteps(t) ==
  \/ \E Ptr \in held[t], M \in maxqs : QuarantineAndMaybeScan(t, Ptr, M)
  \/ QuarantineFlush(t)
  \/ QuarantineLimit(t)
  \/ QuarantineLock(t)
  \/ QuarantineRecheck(t)

Next ==
  \E t \in AllThreads :
    \/ AllocSteps(t)
    \/ ScanSteps(t)
    \/ QuarantineSteps(t)
    \/ SignalHandler(t)
    \/ \E Ptr \in held[t] : UserDeallocate(t, Ptr)
    \/ \E Ptr \in held[t], W \in 1 .. WordsPerChunk, Value \in WriteValues :
         UserWrite(t, Ptr, W, Value)

Spec == Init /\ [][Next]_vars

NextSeq ==
  \E t \in AllThreads :
    \/ AllocSteps(t)
    \/ ScanSteps(t)
    \/ UserScan(t)
    \/ \E Ptr \in held[t] : UserDeallocate(t, Ptr)
    \/ \E Ptr \in held[t] : UserQuarantine(t, Ptr)
    \/ \E Ptr \in freed, q \in BOOLEAN : UserFreeAgain(t, Ptr, q)
    \/ \E Ptr \in held[t], W \in 1 .. WordsPerChunk, Value \in WriteValues :
         UserWrite(t, Ptr, W, Value)
    \/ \E level \in {1, -1} : DataOnlyScope(t, level)
    \/ DataOnlyScopeStore(t)

SpecSeq == InitSeq /\ [][NextSeq]_vars

\* The steps of a call in progress and of the signal handler: the scheduler
\* runs every thread that can run.  When the next call is made is up to the
\* user code.
InternalSteps(t) ==
  \/ FindByteLoad(t)
  \/ TryAllocateCAS(t)
  \/ AllocateSlowerBegin(t)
  \/ AllocateSlowerIter(t)
  \/ AllocateSuperPageLock(t)
  \/ AllocateSuperPage(t)
  \/ AllocateSuperPagePublish(t)
  \/ ScanSteps(t)
  \/ QuarantineFlush(t)
  \/ QuarantineLimit(t)
  \/ QuarantineLock(t)
  \/ QuarantineRecheck(t)
  \/ SignalHandler(t)

SpecLive ==
  /\ InitLive
  /\ [][Next]_vars
  /\ \A t \in AllThreads : WF_vars(InternalSteps(t))

\* What one iteration of MemoryReleaseThread runs, MaybeReleaseToOs included.
ReleaseSteps ==
  \/ \E RangeNum \in Ranges, Idx \in 0 .. (MaxSuperPages - 1) : MemoryReleaseThread(RangeNum, Idx)
  \/ ReleaseCount
  \/ ReleaseCAS
  \/ Madvise
  \/ ReleaseStore
  \/ ReleaseRestore
  \/ ReleaseReturn

\* One thread that allocates and frees chunks of 6528 bytes (range 0, 80 to a
\* super-page, state bytes in the super-page) and of 262144 bytes (range 1),
\* no tags, super-pages mapped shared for their aliases (UseAliases), and the
\* release thread, which makes MaxReleases calls of MaybeReleaseToOs.
InitRel ==
  /\ InitCommon
  /\ call = NoCall
  /\ Config = [DefaultConfig EXCEPT !.UseAliases = TRUE]
  /\ threads = {1}
  /\ sizes = {6528, 262144}
  /\ maxqs = {0}
  /\ deltas = {0}
  /\ targets = {}
  /\ maxops = MaxOpsRel
  /\ seedTags = {0}

NextRel ==
  \/ \E t \in AllThreads :
       \/ AllocSteps(t)
       \/ \E Ptr \in held[t] : UserDeallocate(t, Ptr)
  \/ ReleaseSteps

SpecRel == InitRel /\ [][NextRel]_vars

\* One thread in a configuration without tags: it allocates chunks of one
\* class and frees some of them during its first MaxOpsFree calls, and goes on
\* allocating after that.  The thread keeps running and keeps calling Allocate.
InitReuse ==
  /\ InitCommon
  /\ call = NoCall
  /\ Config \in {c \in Configs : c.UseTag = 0 /\ ~c.UseShadow}
  /\ threads = {1}
  /\ sizes \in {{172032}, {262144}}
  /\ maxqs = {0}
  /\ deltas = {0}
  /\ targets = {}
  /\ maxops = MaxOpsReuse
  /\ seedTags = {0}

NextReuse ==
  \E t \in AllThreads :
    \/ AllocSteps(t)
    \/ \E Ptr \in held[t] : ops[t] < MaxOpsFree /\ UserDeallocate(t, Ptr)

SpecReuse ==
  /\ InitReuse
  /\ [][NextReuse]_vars
  /\ \A t \in AllThreads : WF_vars(AllocSteps(t))

\* A fresh allocator and one thread that only allocates, chunks of one size:
\* 32768 bytes (range 1, 16 to a super-page), 172032 bytes (range 1, 3 to a
\* super-page) or 6528 bytes (range 0); pointers carry no tag (no aliases).
InitFirst ==
  /\ InitCommon
  /\ call = NoCall
  /\ Config \in {c \in Configs : ~c.UseAliases}
  /\ threads = {1}
  /\ sizes \in {{32768}, {172032}, {6528}}
  /\ maxqs = {0}
  /\ deltas = {0}
  /\ targets = {}
  /\ maxops = MaxOpsFirst
  /\ seedTags \in {{x} : x \in (IF Config.UseShadow THEN SeedTags ELSE {0})}

NextFirst == \E t \in AllThreads : AllocSteps(t)

SpecFirst == InitFirst /\ [][NextFirst]_vars

(***************************************************************************)
(* Calls of the functions without side effects, after InitAll.             *)
(***************************************************************************)
\* the state variables a call without side effects leaves alone
Pure ==
  UNCHANGED <<heapVars, quarVars, tlsVars, envVars, relVars, ghostVars,
              DataOnlyScopeLevel, Mu, pc, loc, sl, sigPending, trap, held, ops>>

InitPure ==
  /\ InitCommon
  /\ Config = DefaultConfig
  /\ threads = {1}
  /\ sizes = {}
  /\ maxqs = {0}
  /\ deltas = {0}
  /\ targets = {}
  /\ maxops = 0
  /\ seedTags = {0}

\* SizeToSizeClass(Size, SCD) as Allocate and AllocateSlower call it
SizeToSizeClassCall(Size) ==
  /\ call' = [fn |-> "SizeToSizeClass", arg |-> <<Size>>, res |-> SizeToSizeClass(Size)]
  /\ Pure

\* one call in a behaviour: every size that malloc hands to Allocate, and 0
NextSizeClass ==
  /\ call = NoCall
  /\ \E Size \in 0 .. kMaxSizeClass : SizeToSizeClassCall(Size)

InitSizeClass ==
  /\ InitPure
  /\ call = NoCall

SpecSizeClass == InitSizeClass /\ [][NextSizeClass]_vars

\* InitAll's IsCorrectDivToMul(ChunkSize, ComputeMulForDiv(ChunkSize, 35), 35,
\* kSuperPageSize) for class SC, the part of its loop that compares
\* DivBySizeViaMul's result with Left / ChunkSize for the offsets from
\* Block * DivBlock to (Block + 1) * DivBlock, offset 0 included
IsCorrectDivToMulCall(SC, Block) ==
  /\ call' = [fn |-> "IsCorrectDivToMul", arg |-> <<SC, Block>>,
              res |-> IsCorrectDivToMul(SCArray[SC + 1],
                                        ComputeMulForDiv(SCArray[SC + 1], kDivMulShift),
                                        Block * DivBlock, (Block + 1) * DivBlock)]
  /\ Pure

\* the calls to make: every class, every block of offsets of a super-page
InitDiv ==
  /\ InitPure
  /\ call \in {[fn |-> "none", arg |-> <<SC, Block>>, res |-> FALSE] :
                 SC \in 0 .. (kNumSizeClasses - 1),
                 Block \in 0 .. ((kSuperPageSize \div DivBlock) - 1)}

NextDiv ==
  /\ call.fn = "none"
  /\ IsCorrectDivToMulCall(call.arg[1], call.arg[2])

SpecDiv == InitDiv /\ [][NextDiv]_vars

(***************************************************************************)
(* malloc and posix_memalign of mtmalloc.cpp, for sizes up to              *)
(* kMaxSizeClass (larger ones go to the LargeAllocator).                   *)
(***************************************************************************)
malloc(t, size) == UserAllocate(t, IF size < 8 THEN 1 ELSE size)

\* posix_memalign(&memptr, alignment, size), alignment <= 4096
posix_memalign(t, alignment, size) ==
  IF alignment <= 16 THEN malloc(t, size)
  ELSE malloc(t, RoundDownTo(size, alignment))

\* the alignment and the size that the thread passes in each of its calls
AlignInputs ==
  {<<16, 6500>>, <<1024, 3072>>, <<2048, 8292>>, <<4096, 4196>>, <<4096, 8192>>}

\* One thread that calls posix_memalign up to MaxOpsAlign times with the same
\* alignment and size; pointers carry no tag (no aliases).
InitAlign ==
  /\ InitCommon
  /\ call \in {[fn |-> "posix_memalign", arg |-> in, res |-> 0] : in \in AlignInputs}
  /\ Config \in {c \in Configs : ~c.UseAliases}
  /\ threads = {1}
  /\ sizes = {}
  /\ maxqs = {0}
  /\ deltas = {0}
  /\ targets = {}
  /\ maxops = MaxOpsAlign
  /\ seedTags = {0}

NextAlign ==
  \E t \in AllThreads :
    \/ posix_memalign(t, call.arg[1], call.arg[2])
    \/ FindByteLoad(t)
    \/ TryAllocateCAS(t)
    \/ AllocateSlowerBegin(t)
    \/ AllocateSlowerIter(t)
    \/ AllocateSuperPageLock(t)
    \/ AllocateSuperPage(t)
    \/ AllocateSuperPagePublish(t)

SpecAlign == InitAlign /\ [][NextAlign]_vars

(***************************************************************************)
(* __mtm_access: the check of an access through a pointer                  *)
(***************************************************************************)
\* the address tag bits 40..43 lie inside the sixteen aliases only
IsMine(Ptr) == Ptr.r \in Ranges /\ (Config.UseAliases \/ Ptr.tag = 0)

\* __mtm_access traps on Ptr
AccessMismatch(Ptr) ==
  /\ IsMine(Ptr)
  /\ GetAddressTag(Ptr) # GetMemoryTag(ApplyAddressTag(Ptr, 0)) % 16

mtm_access(t, Ptr) ==
  /\ AtMain(t, "idle")
  /\ ops[t] < maxops
  /\ trap' = IF AccessMismatch(Ptr) THEN "address-memory-tag-mismatch" ELSE trap
  /\ call' = [fn |-> "__mtm_access", arg |-> <<t, Ptr>>, res |-> Ptr \in stale]
  /\ EndCall(t)
  /\ UNCHANGED <<heapVars, quarVars, tlsVars, envVars, relVars, ghostVars,
                 DataOnlyScopeLevel, Mu, sl, sigPending, held>>

\* Two threads with alias and shadow tagging that allocate chunks of 262144
\* bytes, free them (Deallocate or Quarantine) and access memory through the
\* pointers they hold and through the pointers that have been freed.
InitAccess ==
  /\ InitCommon
  /\ call = NoCall
  /\ Config \in {c \in Configs : c.UseShadow /\ c.UseAliases}
  /\ threads = {1, 2}
  /\ sizes = {262144}
  /\ maxqs = {0}
  /\ deltas = {0}
  /\ targets = {}
  /\ maxops = MaxOpsAccess
  /\ seedTags \in {{x} : x \in SeedTags}

NextAccess ==
  \E t \in AllThreads :
    \/ AllocSteps(t)
    \/ \E Ptr \in held[t] : UserDeallocate(t, Ptr)
    \/ \E Ptr \in held[t] : UserQuarantine(t, Ptr)
    \/ \E Ptr \in held[t] \cup stale : mtm_access(t, Ptr)

SpecAccess == InitAccess /\ [][NextAccess]_vars

(***************************************************************************)
(* LargeAllocator (mtmalloc_large.h).  A 64-bit word is the tuple of its   *)
(* four 16-bit digits, the most significant first.                         *)
(***************************************************************************)
kCpuPageSize == 4096
kLeftHeaderMagic == <<924, 33333, 9648, 9086>>       \* 0x039C823525B0237E
kRightHeaderMagic == <<7212, 21248, 2445, 34221>>    \* 0x1C2C5300098D85AD

\* w - n in 64 bits, for n < 2^16
WordSub(w, n) ==
  LET b0 == IF w[4] < n THEN 1 ELSE 0
      b1 == IF w[3] < b0 THEN 1 ELSE 0
      b2 == IF w[2] < b1 THEN 1 ELSE 0
  IN <<(w[1] + 65536 - b2) % 65536, (w[2] + 65536 - b1) % 65536,
       (w[3] + 65536 - b0) % 65536, (w[4] + 65536 - n) % 65536>>

\* GetHeader(Ptr) traps; Header is the words 0..2 of the page before Ptr
GetHeaderTraps(Header) ==
  Header[1] # kLeftHeaderMagic /\ Header[3] # kRightHeaderMagic

\* the words that the page before the pointer may hold: the two magic words,
\* a magic word with one bit flipped, zeroes (a fresh mapping), the bytes of
\* a memset(P, 1, Size), and sizes with header
Corrupted(w) == [w EXCEPT ![4] = IF @ % 2 = 0 THEN @ + 1 ELSE @ - 1]
Header0Words == {kLeftHeaderMagic, Corrupted(kLeftHeaderMagic), kRightHeaderMagic,
                 <<0, 0, 0, 0>>, <<257, 257, 257, 257>>}
Header1Words == {<<0, 0, 0, 8192>>, <<0, 0, 16, 4096>>, <<0, 0, 32, 4096>>,
                 <<257, 257, 257, 257>>}
Header2Words == {kRightHeaderMagic, Corrupted(kRightHeaderMagic), kLeftHeaderMagic,
                 <<0, 0, 0, 0>>, <<257, 257, 257, 257>>}

LargeUnchanged ==
  UNCHANGED <<heapVars, quarVars, tlsVars, envVars, relVars, ghostVars,
              DataOnlyScopeLevel, Mu, pc, loc, sl, sigPending, held, ops>>

\* LargeAllocator::GetPtrChunkSize(Ptr), call.arg the header before Ptr
LargeGetPtrChunkSize ==
  /\ call.fn = "none"
  /\ trap = "none"
  /\ trap' = IF GetHeaderTraps(call.arg) THEN "TRAP" ELSE trap
  /\ call' = [call EXCEPT !.fn = "GetPtrChunkSize",
                          !.res = IF GetHeaderTraps(call.arg) THEN <<>>
                                  ELSE WordSub(call.arg[2], kCpuPageSize)]
  /\ LargeUnchanged

\* LargeAllocator::Deallocate(Ptr, Protect): the result is the mapping that
\* replaces MmapSize bytes from Header on
LargeDeallocate(Protect) ==
  /\ call.fn = "none"
  /\ trap = "none"
  /\ trap' = IF GetHeaderTraps(call.arg) THEN "TRAP" ELSE trap
  /\ call' = [call EXCEPT !.fn = "Deallocate",
                          !.res = IF GetHeaderTraps(call.arg) THEN <<>>
                                  ELSE <<IF Protect THEN "PROT_NONE" ELSE "munmap",
                                         call.arg[2]>>]
  /\ LargeUnchanged

InitLarge ==
  /\ InitPure
  /\ call \in {[fn |-> "none", arg |-> <<h0, h1, h2>>, res |-> <<>>] :
                 h0 \in Header0Words, h1 \in Header1Words, h2 \in Header2Words}

NextLarge ==
  \/ LargeGetPtrChunkSize
  \/ \E Protect \in BOOLEAN : LargeDeallocate(Protect)

SpecLarge == InitLarge /\ [][NextLarge]_vars

\* One call of Allocate on the fast path: the thread's super-page of the
\* class is super-page 0 of range 1, its state array holds at most
\* MaxAvailable AVAILABLE chunks anywhere, the others are in use or in
\* quarantine, and the thread's hint is anything from 0 to NumChunks (left by
\* this super-page or by another one of the class).  Classes of 16, 10 and 3
\* chunks.
TryClasses == {56, 58, 65}

TryStates(N, A) ==
  [i \in 1 .. N |->
     IF (i - 1) \in A THEN AVAILABLE
     ELSE CASE i % 3 = 0 -> USED_MIXED
            [] i % 3 = 1 -> USED_DATA
            [] OTHER -> QUARANTINED]

InitTry ==
  /\ Config = DefaultConfig
  /\ threads = {1}
  /\ maxqs = {0}
  /\ deltas = {0}
  /\ targets = {}
  /\ maxops = 1
  /\ seedTags = {0}
  /\ \E c \in TryClasses :
       LET N == SCDescr[c].NumChunks
       IN /\ sizes = {SCArray[c + 1]}
          /\ NumSuperPages = [r \in Ranges |-> IF r = 1 THEN 1 ELSE 0]
          /\ Meta = [r \in Ranges |-> IF r = 1 THEN <<c>> ELSE << >>]
          /\ \E A \in {B \in SUBSET (0 .. (N - 1)) : Cardinality(B) <= MaxAvailable} :
               State = [r \in Ranges |-> IF r = 1 THEN <<TryStates(N, A)>> ELSE << >>]
          /\ MemTag = [r \in Ranges |-> IF r = 1 THEN <<[j \in 1 .. N |-> 0]>> ELSE << >>]
          /\ Mem = [r \in Ranges |->
                      IF r = 1 THEN <<[j \in 1 .. N |-> [w \in 1 .. WordsPerChunk |-> NonPtr]]>>
                      ELSE << >>]
          /\ \E h \in 0 .. N :
               PerSC = [t \in AllThreads |->
                          [k \in ModelClasses |->
                             IF k = c /\ t = 1 THEN [SP |-> 0, LastIdxHint |-> h]
                             ELSE [SP |-> NoSP, LastIdxHint |-> 0]]]
  /\ BytesInQuarantine = 0
  /\ LastQurantineSize = 0
  /\ NumScans = 0
  /\ ScanPos = [r \in Ranges |-> 0]
  /\ DataOnlyScopeLevel = 0
  /\ Mu = 0
  /\ LocalQuarantineSize = [t \in AllThreads |-> 0]
  /\ pc = [t \in AllThreads |-> "idle"]
  /\ loc = [t \in AllThreads |-> LocInit]
  /\ sl = [t \in AllThreads |-> [main |-> FrameOff, sig |-> FrameOff]]
  /\ sigPending = [t \in AllThreads |-> FALSE]
  /\ trap = "none"
  /\ held = [t \in AllThreads |-> {}]
  /\ freed = {}
  /\ stale = {}
  /\ ret = [t \in AllThreads |-> NonPtr]
  /\ last = [op |-> "none", stale |-> FALSE]
  /\ ops = [t \in AllThreads |-> 0]
  /\ quarSince = {}
  /\ awaiting = {}
  /\ scanQ = {}
  /\ scanRef = {}
  /\ rel = RelIdle
  /\ call = NoCall

NextTry ==
  \E t \in AllThreads :
    \/ \E Size \in sizes : UserAllocate(t, Size)
    \/ FindByteLoad(t)
    \/ TryAllocateCAS(t)

SpecTry == InitTry /\ [][NextTry]_vars

\* Two threads in the default configuration from the state after
\* construction: thread 1 allocates chunks of 262144 bytes and calls Scan
\* directly, as the tests do; thread 2 runs code that makes no call and takes
\* the signals.  No chunk is put in quarantine, so Mark never stores.
InitPart ==
  /\ InitCommon
  /\ call = NoCall
  /\ Config = DefaultConfig
  /\ threads = {1, 2}
  /\ sizes = {262144}
  /\ maxqs = {0}
  /\ deltas = {0}
  /\ targets = {}
  /\ maxops = MaxOpsPart
  /\ seedTags = {0}

NextPart ==
  \/ AllocSteps(1)
  \/ UserScan(1)
  \/ \E t \in AllThreads :
       \/ ScanStart(t)
       \/ SignalHandler(t)
       \/ ScanLoopFetch(t)
       \/ MarkAllLivePointers(t)
       \/ PostScan(t)
       \/ ScanPublish(t)
       \/ ScanReturn(t)

SpecPart == InitPart /\ [][NextPart]_vars

\* Two threads in the default configuration from the state after
\* construction: calls of DataOnlyScope with every kind of argument and
\* allocations of 262144 bytes.
InitScope ==
  /\ InitCommon
  /\ call = NoCall
  /\ Config = DefaultConfig
  /\ threads = {1, 2}
  /\ sizes = {262144}
  /\ maxqs = {0}
  /\ deltas = {0}
  /\ targets = {}
  /\ maxops = MaxOpsScope
  /\ seedTags = {0}

NextScope ==
  \E t \in AllThreads :
    \/ AllocSteps(t)
    \/ \E level \in ScopeArgs : DataOnlyScope(t, level)
    \/ DataOnlyScopeLoad(t)
    \/ DataOnlyScopeStore(t)

SpecScope == InitScope /\ [][NextScope]_vars

(***************************************************************************)
(* Where a new super-page goes: GetSuperPage and SetSizeClass as           *)
(* AllocateSuperPage calls them.  Addresses are counted in units of        *)
(* kSuperPageSize (every address here is a multiple of it).                *)
(***************************************************************************)
\* kAllocatorSpace / kSuperPageSize and kAllocatorSize / kSuperPageSize
kAllocatorSpace == 201326592
kAllocatorSize == 2097152

kFirstSuperPage(RangeNum) ==
  IF RangeNum = 0 THEN kAllocatorSpace ELSE kAllocatorSpace + kAllocatorSize \div 2

\* the address of the super-page, or the trap
GetSuperPage(RangeNum, Idx) ==
  LET Addr == kFirstSuperPage(RangeNum) + Idx
  IN [trap |-> Addr >= kAllocatorSpace + kAllocatorSize, Addr |-> Addr]

\* the index of the byte of SuperPageMetadata that Set writes, or the trap
SetSizeClass(Ptr) ==
  [trap |-> ~(Ptr >= kAllocatorSpace /\ Ptr < kAllocatorSpace + kAllocatorSize),
   Idx |-> Ptr - kAllocatorSpace]

\* AllocateSuperPage for a class of range RangeNum when NumSuperPages[RangeNum]
\* is N, up to SetSizeClass: the address it maps (MAP_FIXED) and the
\* metadata byte it writes, or the trap
AllocateSuperPageAt(RangeNum, N) ==
  /\ call' = [fn |-> "AllocateSuperPage", arg |-> <<RangeNum, N>>,
              res |-> LET Res == GetSuperPage(RangeNum, N)
                          Set == SetSizeClass(Res.Addr)
                      IN IF Res.trap \/ Set.trap THEN <<"TRAP">>
                         ELSE <<"mapped", Res.Addr, Set.Idx>>]
  /\ Pure

\* the counts to create a super-page from: up to NearHalf from 0 and from the
\* number of super-pages a half holds, on either side of it
InitHalf ==
  /\ InitPure
  /\ call \in {[fn |-> "none", arg |-> <<r, N>>, res |-> <<>>] :
                 r \in Ranges,
                 N \in (0 .. NearHalf) \cup
                       (((kAllocatorSize \div 2) - NearHalf) .. ((kAllocatorSize \div 2) + NearHalf))}

NextHalf ==
  /\ call.fn = "none"
  /\ AllocateSuperPageAt(call.arg[1], call.arg[2])

SpecHalf == InitHalf /\ [][NextHalf]_vars

(***************************************************************************)
(* Frees of addresses that are not the start of a chunk.                   *)
(***************************************************************************)
\* offsets in a super-page of class SCD that are not the start of a chunk:
\* inside the first, the second and the last chunk, and from the end of the
\* last chunk on (multiples of the chunk size among them)
InsideOffsets(SCD) ==
  LET CS == SCD.ChunkSize
      End == SCD.NumChunks * CS
  IN {x \in {8, 16, CS - 16, CS + 16, 2 * CS - 1024, End - 16,
             End, End + 16, End + CS, kSuperPageSize - 1024, kSuperPageSize - 16} :
        x < kSuperPageSize /\ (x % CS # 0 \/ x >= End)}

\* the pointers the user code makes for such an offset of super-page sp of
\* range r: with the address tag that matches the memory tag there, and
\* with the next one
InsidePtrs(r, sp) ==
  {[tag |-> tg, r |-> r, off |-> sp * kSuperPageSize + x] :
     x \in InsideOffsets(SCDOf(r, sp)),
     tg \in IF Config.UseAliases
            THEN UNION {{m % 16, (m + 1) % 16} :
                          m \in {GetMemoryTag([tag |-> 0, r |-> r, off |-> sp * kSuperPageSize + y]) :
                                   y \in InsideOffsets(SCDOf(r, sp))}}
            ELSE {0}}

\* One thread, every tagging configuration, chunks of 6528 bytes (range 0, 80
\* to a super-page), 172032 bytes (3 to a super-page) and 262144 bytes (2).
InitInside ==
  /\ InitCommon
  /\ call = NoCall
  /\ Config \in Configs
  /\ threads = {1}
  /\ sizes = {6528, 172032, 262144}
  /\ maxqs = {0}
  /\ deltas = {0}
  /\ targets = {}
  /\ maxops = MaxOpsInside
  /\ seedTags = {IF Config.UseShadow THEN 15 ELSE 0}

NextInside ==
  \E t \in AllThreads :
    \/ AllocSteps(t)
    \/ \E Ptr \in held[t] : UserDeallocate(t, Ptr)
    \/ \E r \in Ranges, sp \in 0 .. (MaxSuperPages - 1), quarantine \in BOOLEAN :
         /\ sp < NumSuperPages[r]
         /\ \E P \in InsidePtrs(r, sp) : UserFreeInside(t, P, quarantine)

SpecInside == InitInside /\ [][NextInside]_vars

(***************************************************************************)
(* Two threads that free the same pointer.                                 *)
(***************************************************************************)
\* Thread 1 allocates chunks of 262144 bytes; both threads pass the pointers
\* it holds, and the ones already freed, to Deallocate and Quarantine, in
\* every tagging configuration.
InitRace ==
  /\ InitCommon
  /\ call = NoCall
  /\ Config \in Configs
  /\ threads = {1, 2}
  /\ sizes = {262144}
  /\ maxqs = {0}
  /\ deltas = {0}
  /\ targets = {}
  /\ maxops = MaxOpsRace
  /\ seedTags = {0}

NextRace ==
  \/ AllocSteps(1)
  \/ \E t \in AllThreads :
       \/ \E Ptr \in held[1] \cup freed, quarantine \in BOOLEAN : FreeLoad(t, Ptr, quarantine)
       \/ FreeStore(t)

SpecRace == InitRace /\ [][NextRace]_vars

(***************************************************************************)
(* The release thread next to a thread that allocates, frees and           *)
(* quarantines.                                                            *)
(***************************************************************************)
\* One thread with chunks of 172032 bytes (range 1, 3 to a super-page),
\* without tags (Quarantine leaves QUARANTINED) or with shadow tags and
\* UseTag = 1 (it leaves AVAILABLE), and the release thread.
InitDaemon ==
  /\ InitCommon
  /\ call = NoCall
  /\ Config \in {DefaultConfig, [UseTag |-> 1, UseShadow |-> TRUE, UseAliases |-> FALSE]}
  /\ threads = {1}
  /\ sizes = {172032}
  /\ maxqs = {0}
  /\ deltas = {0}
  /\ targets = {}
  /\ maxops = MaxOpsDaemon
  /\ seedTags = {0}

NextDaemon ==
  \/ \E t \in AllThreads :
       \/ AllocSteps(t)
       \/ \E Ptr \in held[t] : UserDeallocate(t, Ptr)
       \/ \E Ptr \in held[t] : UserQuarantine(t, Ptr)
  \/ ReleaseSteps

SpecDaemon == InitDaemon /\ [][NextDaemon]_vars

(***************************************************************************)
(* The loop of Allocator::MemoryReleaseThread: which super-page each       *)
(* iteration hands to MaybeReleaseToOs.  call.arg holds NumSuperPages,     *)
(* call.res the loop counter and the super-page of the last call.          *)
(***************************************************************************)
\* the choice of an iteration depends on Iter through Iter % 2 and Iter % N
\* only: Iter is kept modulo a common multiple of 2 and of every N
IterPeriod ==
  CHOOSE p \in 1 .. 5040 :
    /\ p % kNumSizeClassRanges = 0
    /\ \A n \in 1 .. MaxSuperPages : p % n = 0
    /\ \A q \in 1 .. (p - 1) :
         ~(q % kNumSizeClassRanges = 0 /\ \A n \in 1 .. MaxSuperPages : q % n = 0)

\* 'size_t Idx = Iter % N'
ReleaseIdx(Iter, N) == Iter % N

\* one iteration of the for loop
MemoryReleaseThreadIter ==
  /\ call.fn \in {"none", "MemoryReleaseThread"}
  /\ LET Iter == call.res[1]
         RangeNum == Iter % kNumSizeClassRanges
         N == call.arg[RangeNum + 1]
     IN call' = [fn |-> "MemoryReleaseThread", arg |-> call.arg,
                 res |-> IF N = 0 THEN <<(Iter + 1) % IterPeriod, 2, 0>>
                         ELSE <<(Iter + 1) % IterPeriod, RangeNum, ReleaseIdx(Iter, N)>>]
  /\ Pure

\* the release thread starts with Iter = 0; the ranges hold any numbers of
\* super-pages
InitIter ==
  /\ InitPure
  /\ call \in {[fn |-> "none", arg |-> <<N0, N1>>, res |-> <<0, 2, 0>>] :
                 N0 \in 0 .. MaxSuperPages, N1 \in 0 .. MaxSuperPages}

NextIter == MemoryReleaseThreadIter

\* the thread is never stopped for good
SpecIter == InitIter /\ [][NextIter]_vars /\ WF_vars(NextIter)

(***************************************************************************)
(* The layout of a super-page of each size class: where its chunks end,    *)
(* where its state bytes are and how far FindByte_PEXT reads.              *)
(***************************************************************************)
\* state bytes that SecondRangeMeta holds for one super-page of range 1
SecondRangeStateBytes == kSuperPageSize \div kSizeAlignmentForSecondRange

\* the layout of class SC.  Range 0: offsets in the super-page of the end of
\* the last chunk (AddressOfChunk(NumChunks)), of State() and of the end of
\* the last 8-byte tuple FindByte_PEXT loads.  Range 1: the state bytes are
\* in SecondRangeMeta, State() is offset 0 of the super-page's part of it.
SuperPageLayout(SC) ==
  /\ call' = [fn |-> "ComputeNumChunks", arg |-> <<SC>>,
              res |-> LET D == SCDescrOf(SC)
                          N == D.NumChunks
                          S == IF D.RangeNum = 1 THEN 0
                               ELSE kSuperPageSize - SizeOfInlineMeta(N, 0)
                      IN [RangeNum |-> D.RangeNum, NumChunks |-> N,
                          ChunksEnd |-> N * D.ChunkSize,
                          State |-> S,
                          StateEnd |-> S + N,
                          TuplesEnd |-> S + RoundUpTo(N, 8)]]
  /\ Pure

\* every size class of the table
InitLayout ==
  /\ InitPure
  /\ call \in {[fn |-> "none", arg |-> <<SC>>, res |-> <<>>] : SC \in 0 .. (kNumSizeClasses - 1)}

NextLayout ==
  /\ call.fn = "none"
  /\ SuperPageLayout(call.arg[1])

SpecLayout == InitLayout /\ [][NextLayout]_vars

(***************************************************************************)
(* Creation of super-pages by two threads at once.                         *)
(***************************************************************************)
\* Two threads from the state after construction, in every tagging
\* configuration, that ask for 6528 bytes (range 0) and 262144 bytes
\* (range 1, two chunks to a super-page).
InitPub ==
  /\ InitCommon
  /\ call = NoCall
  /\ Config \in Configs
  /\ threads = {1, 2}
  /\ sizes = {6528, 262144}
  /\ maxqs = {0}
  /\ deltas = {0}
  /\ targets = {}
  /\ maxops = MaxOpsPub
  /\ seedTags = {IF Config.UseShadow THEN 15 ELSE 0}

NextPub == \E t \in AllThreads : AllocSteps(t)

SpecPub == InitPub /\ [][NextPub]_vars

(***************************************************************************)
(* Direct calls of Allocator::Quarantine, as TEST(Allocate, Quarantine)    *)
(* makes them: no flush, no scan.                                          *)
(***************************************************************************)
\* One thread that asks for 200000 bytes (chunks of 262144) and passes its
\* pointers to Quarantine, in every tagging configuration; with shadow tags
\* the first tag is 0 (the next one does not wrap), 15 (its low four bits
\* wrap) or 255 (it wraps).
InitQuar ==
  /\ InitCommon
  /\ call = NoCall
  /\ Config \in Configs
  /\ threads = {1}
  /\ sizes = {200000}
  /\ maxqs = {0}
  /\ deltas = {0}
  /\ targets = {}
  /\ maxops = MaxOpsQuar
  /\ seedTags \in {{x} : x \in (IF Config.UseShadow THEN SeedTags ELSE {0})}

NextQuar ==
  \E t \in AllThreads :
    \/ AllocSteps(t)
    \/ \E Ptr \in held[t] : UserQuarantine(t, Ptr)

SpecQuar == InitQuar /\ [][NextQuar]_vars

(***************************************************************************)
(* Properties.                                                             *)
(***************************************************************************)
Untag(p) == [p EXCEPT !.tag = 0]
ChunkOf(p) == ChunkIdOf(Untag(p))

\* the step in which thread t's Allocate returns
AllocReturns(t) == pc[t] = "try_cas" /\ pc'[t] = "idle"

\* the chunk thread t's next TryPos is about to try
Candidate(t) ==
  <<SCDescr[loc[t].sc].RangeNum, loc[t].sp, loc[t].idx + SetMin(loc[t].cand)>>

\* where a thread is while it executes Scan
ScanPcs == {"scan_start", "scanloop", "postscan", "scan_pub", "scan_ret"}

RECURSIVE SumChunkSizes(_)
SumChunkSizes(S) ==
  IF S = {} THEN 0
  ELSE LET c == CHOOSE x \in S : TRUE
       IN SCDOf(c[1], c[2]).ChunkSize + SumChunkSizes(S \ {c})

\* chunk_size times the number of QUARANTINED chunks, over all super-pages
QuarantinedBytes == SumChunkSizes({c \in Chunks : StateOf(c) = QUARANTINED})

C3_ReferencedKept ==
  \A t \in AllThreads :
    pc[t] = "scan_ret" => \A q \in scanRef : StateOf(q) \in {QUARANTINED, MARKED}

\* C4: in a sequential execution a second Deallocate or Quarantine of a pointer
\* whose chunk has not been allocated again traps, by the tag comparison when
\* shadow and aliases are on and by the state byte otherwise, whatever the
\* state byte is.
C4_SecondFreeTraps ==
  /\ last.stale =>
       trap = (IF Config.UseShadow /\ Config.UseAliases THEN "double-free" ELSE "DoubleFree")
  /\ \A S \in {AVAILABLE, QUARANTINED, MARKED, RELEASING} :
       ExchangeAndCheckForDoubleFree(S) = "DoubleFree"

\* a second free stopped by the comparison of the address tag with the memory tag
C4_Witness == last.stale /\ trap = "double-free" /\ last.op = "Quarantine"

\* C5: when Scan completes (the step in which it publishes its result), every
\* chunk that was QUARANTINED when the scan started and that no USED_MIXED
\* chunk references is out of quarantine.
C5_UnreferencedRecycled ==
  [][\A t \in AllThreads :
       (pc[t] = "scan_pub" /\ pc'[t] = "scan_ret") =>
         \A q \in scanQ :
           ~ReferencedIn(State', Mem', q) => StateOf(q)' \notin {QUARANTINED, MARKED}]_vars

\* C6: the step in which Scan publishes its result leaves BytesInQuarantine and
\* LastQurantineSize equal to the bytes of the chunks that are QUARANTINED.
C6_PublishedIsQuarantined ==
  [][\A t \in AllThreads :
       (pc[t] = "scan_pub" /\ pc'[t] = "scan_ret") =>
         /\ BytesInQuarantine' = QuarantinedBytes'
         /\ LastQurantineSize' = QuarantinedBytes']_vars

\* C7: while the thread that runs Scan is in its post-pass, no other thread is
\* still marking a batch of super-pages it claimed.
C7_PostPassAfterMarking ==
  \A t \in AllThreads, u \in AllThreads :
    (t # u /\ pc[t] = "postscan") => sl[u].sig.st \notin {"chunk", "store"}

\* C8: from the start of the mark loop of the thread that runs Scan until it
\* has published the new quarantine size, every other thread is in its signal
\* handler or has the signal still to come: none has resumed.
C8_WorldStopped ==
  \A t \in threads, u \in threads :
    (t # u /\ pc[t] \in {"scanloop", "postscan", "scan_pub"}) =>
      (sigPending[u] \/ InHandler(u))

\* C9: at most one thread executes Scan, and it holds the allocator's mutex;
\* so does the thread that executes MoveFromQuarantineToAvailable.
C9_OneScanUnderMutex ==
  \A t \in AllThreads :
    pc[t] \in ScanPcs => (Mu = t /\ \A u \in AllThreads \ {t} : pc[u] \notin ScanPcs)

\* one thread is in the post-pass while another, over its threshold as well,
\* waits for the mutex
C9_Witness ==
  \E t \in threads, u \in threads : pc[t] = "postscan" /\ pc[u] = "q_lock"

\* C10: QuarantineAndMaybeScan enters Scan only when BytesInQuarantine exceeds
\* MaxQuarantineSize + LastQurantineSize, with the values they have then.
C10_ScanOnlyOverThreshold ==
  \A t \in AllThreads :
    (pc[t] = "scan_start" /\ loc[t].viaq) =>
      BytesInQuarantine > loc[t].maxq + LastQurantineSize

C12_AvailableAfterRelease ==
  (rel.pc = "ret" /\ rel.released) =>
    \A i \in 0 .. (SCDOf(rel.r, rel.sp).NumChunks - 1) :
      \/ State[rel.r][rel.sp + 1][i + 1] = AVAILABLE
      \/ \E t \in threads : <<rel.r, rel.sp, i>> \in {ChunkOf(p) : p \in held[t]}

\* the addresses Allocate can return in range 1 under the bounds
ReuseAddrs ==
  {AddressOfChunk(1, sp, i, SCDescr[c]) :
     sp \in 0 .. (MaxSuperPages - 1), i \in 0 .. 2, c \in {65, 66}}

\* C13: in a single-threaded run AllocateSlower goes for a new super-page of a
\* class only when no chunk of an existing super-page of the class is
\* AVAILABLE, and an address that has been freed is returned again when the
\* thread goes on allocating chunks of the class.
C13_ReuseBeforeGrowth ==
  /\ [](\A t \in threads :
          pc[t] \in {"asp_lock", "asp_body", "asp_publish"} =>
            \A c \in Chunks : Meta[c[1]][c[2] + 1] = loc[t].sc => StateOf(c) # AVAILABLE)
  /\ \A p \in ReuseAddrs :
       (p \in freed) ~> (\E t \in threads : ret[t] = p /\ p \in held[t])

\* the thread has made four calls with the two chunks of one super-page, so
\* one of them has been freed and returned again, and now goes for a second
\* super-page
C13_Witness ==
  \E t \in threads :
    /\ pc[t] = "asp_lock"
    /\ loc[t].sc = 66
    /\ NumSuperPages[1] = 1
    /\ ops[t] = 4
    /\ freed = {}

\* the class of the only size the thread allocates
OnlyClass == SizeToSizeClass(CHOOSE Size \in sizes : TRUE)

\* C14 as stated: each of the first 32 allocations of a class of range 1
\* returns base + i * chunk_size, in the super-page at the base of the half.
C14_ConsecutiveInOneSuperPage ==
  \A t \in threads :
    (pc[t] = "idle" /\ ops[t] \in 1 .. 32 /\ SCDescr[OnlyClass].RangeNum = 1) =>
      /\ ret[t] = [tag |-> 0, r |-> 1, off |-> (ops[t] - 1) * SCArray[OnlyClass + 1]]
      /\ ret[t].off < kSuperPageSize

\* C14, amended: allocation number k (from 0) of a class of range 1, with n
\* chunks to a super-page, returns chunk k mod n of super-page k div n of the
\* range-1 half, so the first n allocations are consecutive from the base of
\* the half; the first 32 allocations of a class of range 0 (80 chunks or
\* more to a super-page) are consecutive from the base of the range-0 half.
C14_FirstAllocations ==
  \A t \in threads :
    (pc[t] = "idle" /\ ops[t] \in 1 .. 32) =>
      LET k == ops[t] - 1
          size == SCArray[OnlyClass + 1]
          n == kSuperPageSize \div size
      IN IF size % kSizeAlignmentForSecondRange = 0
         THEN ret[t] = [tag |-> 0, r |-> 1,
                        off |-> (k \div n) * kSuperPageSize + (k % n) * size]
         ELSE ret[t] = [tag |-> 0, r |-> 0, off |-> k * size]

\* the 17th allocation of 32768 bytes is the first chunk of the second super-page
C14_Witness ==
  \E t \in threads :
    /\ pc[t] = "idle"
    /\ ops[t] = 17
    /\ OnlyClass = 56
    /\ ret[t] = [tag |-> 0, r |-> 1, off |-> kSuperPageSize]

\* C15: for every size from 0 to the largest class, SizeToSizeClass returns
\* the index of a class, the first one whose chunks are large enough.
C15_SmallestFittingClass ==
  call.fn = "SizeToSizeClass" =>
    /\ call.res \in 0 .. (kNumSizeClasses - 1)
    /\ SCArray[call.res + 1] >= call.arg[1]
    /\ \A c \in 0 .. (call.res - 1) : SCArray[c + 1] < call.arg[1]

\* C16: for every class and every offset up to kSuperPageSize,
\* (offset * recip) >> 35 is offset / chunk_size (the comparison that InitAll
\* makes finds them equal), and the reciprocal ComputeMulForDiv(chunk_size, 35)
\* loses nothing in its 32 bits.
C16_DivByMulExact ==
  call.fn = "IsCorrectDivToMul" =>
    LET ChunkSize == SCArray[call.arg[1] + 1]
        recip == ComputeMulForDiv(ChunkSize, kDivMulShift)
    IN /\ call.res
       /\ \A offset \in (call.arg[2] * DivBlock) .. ((call.arg[2] + 1) * DivBlock - 1) :
            DivBySizeViaMul(offset, recip) = offset \div ChunkSize
       /\ recip = MulForDivWide(ChunkSize, kDivMulShift)

\* the block of offsets with 3 * 172032 - 1 and 3 * 172032, the last byte of
\* chunk 2 of a super-page of 172032-byte chunks and the byte after it
C16_Witness ==
  /\ call.fn = "IsCorrectDivToMul"
  /\ call.arg = <<65, 125>>
  /\ call.res
  /\ DivBySizeViaMul(3 * 172032 - 1, ComputeMulForDiv(172032, kDivMulShift)) = 2
  /\ DivBySizeViaMul(3 * 172032, ComputeMulForDiv(172032, kDivMulShift)) = 3

\* C17: the address that posix_memalign returns for a power-of-two alignment
\* up to 4096 is a multiple of the alignment, whatever the size (the bases of
\* the two half-regions are multiples of 4096).
C17_Aligned ==
  \A t \in threads :
    (pc[t] = "idle" /\ ops[t] >= 1 /\ call.fn = "posix_memalign") =>
      ret[t].off % call.arg[1] = 0

\* C18: the pointer that Allocate returns carries, as its address tag, the low
\* four bits of the memory tag of its chunk, in every configuration.
C18_TagRoundTrip ==
  [][\A t \in threads :
       AllocReturns(t) =>
         GetAddressTag(ret'[t])
           = GetMemoryTagIn(MemTag', ApplyAddressTag(ret'[t], 0)) % 16]_vars


\* C19: with alias and shadow tagging, an __mtm_access through a pointer that
\* has been freed, made before the chunk is freed again, traps with
\* address-memory-tag-mismatch, whether or not the chunk has been allocated
\* again in between.
C19_StaleAccessTraps ==
  (call.fn = "__mtm_access" /\ call.res) => trap = "address-memory-tag-mismatch"

\* a stale access has trapped on a chunk that another thread holds by now
C19_Witness ==
  /\ call.fn = "__mtm_access" /\ call.res
  /\ trap = "address-memory-tag-mismatch"
  /\ call.arg[2] \notin freed
  /\ \E u \in threads \ {call.arg[1]} :
       \E q \in held[u] : ChunkOf(q) = ChunkOf(call.arg[2])


\* C20: LargeAllocator::Deallocate and GetPtrChunkSize trap whenever the left
\* magic word or the right magic word of the page before the pointer is not
\* the expected value.
C20_MagicCheckTraps ==
  (/\ call.fn \in {"GetPtrChunkSize", "Deallocate"}
   /\ (call.arg[1] # kLeftHeaderMagic \/ call.arg[3] # kRightHeaderMagic))
    => trap = "TRAP"


\* C21: every Quarantine call that leaves the chunk QUARANTINED adds the
\* chunk's class size, not the requested size, to the caller's
\* LocalQuarantineSize and to no other thread's, one that leaves it AVAILABLE
\* adds nothing, and as long as nothing is flushed the counters add up to the
\* class sizes of the chunks in QUARANTINED.
C21_QuarantineAccounting ==
  /\ [][\A t \in threads : \A Ptr \in held[t] :
          (UserQuarantine(t, Ptr) /\ trap' = "none") =>
            /\ LocalQuarantineSize'[t] =
                 LocalQuarantineSize[t]
                   + (IF StateOf(ChunkOf(Ptr))' = QUARANTINED
                      THEN SCDOf(ChunkOf(Ptr)[1], ChunkOf(Ptr)[2]).ChunkSize ELSE 0)
            /\ \A u \in AllThreads \ {t} :
                 LocalQuarantineSize'[u] = LocalQuarantineSize[u]]_vars
  /\ [](LocalQuarantineSize[1] + LocalQuarantineSize[2] = QuarantinedBytes)

\* the thread has quarantined three chunks of 262144 bytes that it asked
\* 200000 bytes for
C21_Witness ==
  /\ LocalQuarantineSize[1] = 3 * 262144
  /\ sizes = {200000}
  /\ last.op = "Quarantine"
  /\ Cardinality({c \in Chunks : StateOf(c) = QUARANTINED}) = 3


\* C22: when no pointer is freed twice, a state byte changes only along
\* AVAILABLE -> USED_MIXED or USED_DATA, USED_* -> AVAILABLE,
\* USED_* -> QUARANTINED, QUARANTINED -> MARKED, QUARANTINED -> AVAILABLE,
\* MARKED -> QUARANTINED, AVAILABLE -> RELEASING and RELEASING -> AVAILABLE.
C22_StateEdges ==
  [][\A c \in Chunks :
       StateOf(c)' # StateOf(c) =>
         <<StateOf(c), StateOf(c)'>> \in
           {<<AVAILABLE, USED_MIXED>>, <<AVAILABLE, USED_DATA>>,
            <<USED_MIXED, AVAILABLE>>, <<USED_DATA, AVAILABLE>>,
            <<USED_MIXED, QUARANTINED>>, <<USED_DATA, QUARANTINED>>,
            <<QUARANTINED, MARKED>>, <<QUARANTINED, AVAILABLE>>,
            <<MARKED, QUARANTINED>>, <<AVAILABLE, RELEASING>>,
            <<RELEASING, AVAILABLE>>}]_vars


\* the step is a Quarantine call of thread t on Ptr that returns, and it
\* leaves the chunk in NewValue and adds Returned to the thread's counter
QuarantineOutcome(t, Ptr, NewValue, Returned) ==
  (UserQuarantine(t, Ptr) /\ trap' = "none") =>
    /\ StateOf(ChunkOf(Ptr))' = NewValue
    /\ LocalQuarantineSize'[t] = LocalQuarantineSize[t] + Returned

\* the memory tag the step has written for Ptr's chunk (0 without shadow)
NewTagOf(Ptr) == GetMemoryTagIn(MemTag', ApplyAddressTag(Ptr, 0))

ClassSizeOf(Ptr) == SCDOf(ChunkOf(Ptr)[1], ChunkOf(Ptr)[2]).ChunkSize

\* C23 as stated: SuperPage::Quarantine makes the chunk AVAILABLE and returns
\* 0 exactly when UseTag = 1 and the low four bits of the new memory tag are
\* 0, or UseTag = 2 and the new tag is 0; otherwise it makes the chunk
\* QUARANTINED and returns the chunk size.
C23_AvailableWhenTagZero ==
  [][\A t \in threads : \A Ptr \in held[t] :
       IF \/ Config.UseTag = 1 /\ NewTagOf(Ptr) % 16 = 0
          \/ Config.UseTag = 2 /\ NewTagOf(Ptr) % 256 = 0
       THEN QuarantineOutcome(t, Ptr, AVAILABLE, 0)
       ELSE QuarantineOutcome(t, Ptr, QUARANTINED, ClassSizeOf(Ptr))]_vars

\* C23, amended: it makes the chunk AVAILABLE and returns 0 exactly when
\* UseTag = 1 and the low four bits of the new memory tag are not 0, or
\* UseTag = 2 and the new tag is not 0; otherwise it makes the chunk
\* QUARANTINED and returns the chunk size.
C23_AvailableWhenTagNotZero ==
  [][\A t \in threads : \A Ptr \in held[t] :
       IF \/ Config.UseTag = 1 /\ NewTagOf(Ptr) % 16 # 0
          \/ Config.UseTag = 2 /\ NewTagOf(Ptr) % 256 # 0
       THEN QuarantineOutcome(t, Ptr, AVAILABLE, 0)
       ELSE QuarantineOutcome(t, Ptr, QUARANTINED, ClassSizeOf(Ptr))]_vars

\* with UseTag = 2 a Quarantine has written the tag 16, whose low four bits
\* are 0, and has made the chunk AVAILABLE without counting it
C23_Witness ==
  /\ Config.UseTag = 2
  /\ last.op = "Quarantine"
  /\ LocalQuarantineSize[1] = 0
  /\ \E p \in freed : /\ GetMemoryTag(Untag(p)) = 16
                      /\ StateOf(ChunkOf(p)) = AVAILABLE


\* C24: a step of PostScan changes the state bytes of its super-page by
\* QUARANTINED -> AVAILABLE and MARKED -> QUARANTINED and no other state byte,
\* and once PostScan has returned no chunk is MARKED.
C24_PostPass ==
  /\ [][\A t \in threads :
          PostScan(t) =>
            \A c \in Chunks :
              StateOf(c)' =
                IF c[1] = loc[t].psr /\ c[2] = loc[t].pssp
                THEN CASE StateOf(c) = QUARANTINED -> AVAILABLE
                       [] StateOf(c) = MARKED -> QUARANTINED
                       [] OTHER -> StateOf(c)
                ELSE StateOf(c)]_vars
  /\ [](\A t \in threads :
          pc[t] = "scan_pub" => \A c \in Chunks : StateOf(c) # MARKED)

\* C25: in a sequential execution the marker marks a chunk only when a word of
\* a USED_MIXED chunk points into it, and when Scan has completed every chunk
\* that was QUARANTINED at its start and that only chunks in other states
\* (USED_DATA, QUARANTINED, MARKED, AVAILABLE) point into is AVAILABLE.
PointedFrom(q) ==
  LET lo == q[2] * kSuperPageSize + q[3] * SCDOf(q[1], q[2]).ChunkSize
      hi == lo + SCDOf(q[1], q[2]).ChunkSize
  IN {c \in Chunks :
        \E w \in 1 .. WordsPerChunk :
          LET v == Mem[c[1]][c[2] + 1][c[3] + 1][w]
          IN v.tag = 0 /\ v.r = q[1] /\ lo <= v.off /\ v.off < hi}

C25_OnlyMixedMarks ==
  /\ [][\A t \in threads : MarkStore(t) => Referenced(Frame(t).tgt)]_vars
  /\ [](\A t \in threads :
          pc[t] = "scan_ret" =>
            \A q \in scanQ :
              (\A c \in PointedFrom(q) : StateOf(c) # USED_MIXED) => StateOf(q) = AVAILABLE)

\* Scan has completed, a USED_DATA chunk holds the address of a chunk that was
\* in quarantine at its start, and that chunk is AVAILABLE
C25_Witness ==
  \E t \in threads, q \in scanQ :
    /\ pc[t] = "scan_ret"
    /\ StateOf(q) = AVAILABLE
    /\ \E c \in PointedFrom(q) : StateOf(c) = USED_DATA

\* C26: a call DataOnlyScope(+1) leaves the level one higher and a call
\* DataOnlyScope(-1) one lower; TryAllocate is called with data-only set
\* exactly when the level is not 0 and stores USED_DATA when it is set and
\* USED_MIXED when it is not; DataOnlyScope(-1) at level 0 and every argument
\* other than +1 and -1 trap; the level never goes below 0.
C26_ScopeLevel ==
  /\ [][\A t \in threads :
          /\ (DataOnlyScopeStore(t) /\ pc[t] = "scope_inc") =>
               DataOnlyScopeLevel' = DataOnlyScopeLevel + 1
          /\ (DataOnlyScopeStore(t) /\ pc[t] = "scope_dec") =>
               DataOnlyScopeLevel' = DataOnlyScopeLevel - 1
          /\ (pc'[t] = "try_read" /\ pc[t] # "try_read") =>
               loc'[t].data = (DataOnlyScopeLevel # 0)
          /\ \A c \in Chunks :
               (TryAllocateCAS(t) /\ StateOf(c) # StateOf(c)') =>
                 StateOf(c)' = IF loc[t].data THEN USED_DATA ELSE USED_MIXED
          /\ \A level \in ScopeArgs :
               (DataOnlyScope(t, level) /\ (level \notin {1, -1} \/ (level = -1 /\ DataOnlyScopeLevel = 0))) =>
                 trap' = "TRAP"]_vars
  /\ [](DataOnlyScopeLevel >= 0)

\* C27: a call of TryAllocate on a super-page that no other thread changes,
\* for every hint from 0 to NumChunks and NumChunks of 3, 10 and 16: it never
\* traps; when it returns NULL no chunk of the super-page is AVAILABLE; when
\* it returns a chunk, the chunk's index is below NumChunks, the chunk was
\* AVAILABLE, and it is the first AVAILABLE one in a rotation over the 8-byte
\* tuples of the state array that starts with the tuple of the hint.
RotationKey(N, Hint, Pos) ==
  LET NT == RoundUpTo(N, 8) \div 8
  IN (((Pos \div 8) + NT - ((Hint \div 8) % NT)) % NT) * 8 + (Pos % 8)

C27_FullRotation ==
  /\ [](trap = "none")
  /\ [](\A t \in threads :
          pc[t] = "slow_begin" =>
            \A c \in Chunks :
              (c[1] = SCDescr[loc[t].sc].RangeNum /\ c[2] = PerSC[t][loc[t].sc].SP) =>
                StateOf(c) # AVAILABLE)
  /\ [][\A t \in threads :
          (TryAllocateCAS(t) /\ ops'[t] = ops[t] + 1) =>
            LET c == ChunkIdOf([ret'[t] EXCEPT !.tag = 0])
                N == SCDescr[loc[t].sc].NumChunks
                Hint == PerSC[t][loc[t].sc].LastIdxHint
            IN /\ c[3] < N
               /\ c[2] = loc[t].sp
               /\ StateOf(c) = AVAILABLE
               /\ \A d \in Chunks :
                    (d[1] = c[1] /\ d[2] = c[2] /\ StateOf(d) = AVAILABLE) =>
                      RotationKey(N, Hint, c[3]) <= RotationKey(N, Hint, d[3])]_vars

\* a super-page of 10 chunks: the only AVAILABLE chunk, chunk 9 in the
\* incomplete second tuple, has been returned and the hint is 10
C27_Witness ==
  /\ pc[1] = "idle"
  /\ ops[1] = 1
  /\ sizes = {49152}
  /\ ret[1] = [tag |-> 0, r |-> 1, off |-> 9 * 49152]
  /\ PerSC[1][58].LastIdxHint = 10
  /\ \A c \in Chunks : StateOf(c) # AVAILABLE

\* C28: a TryAllocate that returns a chunk leaves the caller's hint at the
\* chunk's index plus 1; the hint of every thread for every class is at most
\* the class's NumChunks at all times, whichever super-page of the class the
\* thread turns to next; FindByte_PEXT's trap StartPosHint > N is not taken.
C28_HintInRange ==
  /\ [][\A t \in threads :
          (TryAllocateCAS(t) /\ ops'[t] = ops[t] + 1) =>
            PerSC'[t][loc[t].sc].LastIdxHint = ChunkIdOf([ret'[t] EXCEPT !.tag = 0])[3] + 1]_vars
  /\ [](\A t \in threads, c \in ModelClasses :
          PerSC[t][c].LastIdxHint <= SCDescr[c].NumChunks)
  /\ [][\A t \in threads : FindByteLoad(t) => trap' = "none"]_vars

\* AllocateSlower has turned to super-page 0 again, where a chunk has been
\* freed, with the hint that the last chunk of super-page 1 left: NumChunks
C28_Witness ==
  \E t \in threads :
    /\ pc[t] = "try_read"
    /\ loc[t].retTo # "fast"
    /\ loc[t].sp = 0
    /\ NumSuperPages[1] = 2
    /\ PerSC[t][loc[t].sc].LastIdxHint = SCDescr[loc[t].sc].NumChunks
    /\ \E c \in Chunks : c[2] = 0 /\ StateOf(c) = AVAILABLE

SlotComplete(r, i) ==
  /\ Len(State[r]) > i /\ Len(Mem[r]) > i /\ Len(Meta[r]) > i /\ Len(MemTag[r]) > i
  /\ Meta[r][i + 1] \in ModelClasses
  /\ SCDescr[Meta[r][i + 1]].RangeNum = r
  /\ DOMAIN State[r][i + 1] = 1 .. SCDescr[Meta[r][i + 1]].NumChunks
  /\ MemTag[r][i + 1] \in [1 .. SCDescr[Meta[r][i + 1]].NumChunks -> 0 .. 255]

\* C31: every index below NumSuperPages[r] is that of a super-page that is
\* mapped, with its size class written and its memory tags set; the threads
\* that create super-pages do so one at a time, under the mutex; each
\* creation writes the slot of index NumSuperPages[r], leaves the published
\* slots' classes alone and raises the count by exactly one; the count never
\* decreases.
C31_PublishedComplete ==
  /\ [](\A r \in Ranges : \A i \in 0 .. (NumSuperPages[r] - 1) : SlotComplete(r, i))
  /\ [](\A t \in AllThreads :
          pc[t] \in {"asp_body", "asp_publish"} =>
            (Mu = t /\ \A u \in AllThreads \ {t} : pc[u] \notin {"asp_body", "asp_publish"}))
  /\ [][\A r \in Ranges :
          /\ NumSuperPages'[r] >= NumSuperPages[r]
          /\ \A i \in 0 .. (NumSuperPages[r] - 1) : Meta'[r][i + 1] = Meta[r][i + 1]
          /\ NumSuperPages'[r] # NumSuperPages[r] =>
                /\ NumSuperPages'[r] = NumSuperPages[r] + 1
                /\ Len(Meta[r]) = NumSuperPages[r] + 1
                /\ \E t \in AllThreads : pc[t] = "asp_publish" /\ Mu = t]_vars

\* with shadow tags, a thread has written the second slot of range 1 and not
\* yet published it, while the other thread waits for the mutex to create a
\* super-page as well
C31_Witness ==
  \E t \in threads, u \in threads :
    /\ Config.UseShadow
    /\ pc[t] = "asp_publish"
    /\ pc[u] = "asp_lock"
    /\ NumSuperPages[1] = 1
    /\ Len(Meta[1]) = 2
    /\ MemTag[1][2] = <<15, 15>>

\* the super-page slots and the metadata-map bytes of half r
InHalf(r, x) ==
  /\ x >= r * (kAllocatorSize \div 2)
  /\ x < (r + 1) * (kAllocatorSize \div 2)

\* C32: the super-page AllocateSuperPage maps for range r, and the byte of
\* the metadata map it writes, lie in half r; with an index past the end of
\* the half it traps.
C32_StaysInHalf ==
  call.fn = "AllocateSuperPage" =>
    LET r == call.arg[1]
        N == call.arg[2]
    IN IF N >= kAllocatorSize \div 2 THEN call.res = <<"TRAP">>
       ELSE /\ call.res[1] = "mapped"
            /\ InHalf(r, call.res[2] - kAllocatorSpace)
            /\ InHalf(r, call.res[3])

C34_OneFreeSucceeds ==
  [][\A t \in threads :
       (FreeStore(t) /\ loc[t].fptr \in freed) => trap' # "none"]_vars

\* the state bytes of the super-page MaybeReleaseToOs is working on
RelStates == State[rel.r][rel.sp + 1]

C36_FailedReleaseNoTrace ==
  /\ []((rel.pc = "ret" /\ ~rel.released) =>
         \A i \in DOMAIN RelStates : RelStates[i] # RELEASING)
  /\ [][Madvise => rel.NumReadyToRelease = SCDOf(rel.r, rel.sp).NumChunks]_vars
  /\ [][(ReleaseCAS \/ ReleaseRestore \/ ReleaseCount \/ ReleaseReturn) =>
          /\ Mem' = Mem
          /\ \A c \in Chunks :
               LET New == State'[c[1]][c[2] + 1][c[3] + 1]
               IN New # StateOf(c) =>
                    /\ c[1] = rel.r /\ c[2] = rel.sp
                    /\ <<StateOf(c), New>> \in {<<AVAILABLE, RELEASING>>, <<RELEASING, AVAILABLE>>}]_vars

\* MaybeReleaseToOs is about to return from a super-page of three chunks on
\* which it made one or two chunks RELEASING: a chunk was allocated during
\* its compare-exchanges
C36_Witness ==
  /\ rel.pc = "ret"
  /\ ~rel.released
  /\ rel.NumReadyToRelease \in {1, 2}
  /\ rel.r = 1
  /\ \E i \in DOMAIN RelStates : RelStates[i] \in {USED_MIXED, USED_DATA}

\* C37: whatever the numbers of super-pages of the two ranges, every
\* existing super-page is handed to MaybeReleaseToOs again and again.
C37_EveryPageVisited ==
  \A r \in Ranges, Idx \in 0 .. (MaxSuperPages - 1) :
    [](Idx < call.arg[r + 1] => <>(call.res[2] = r /\ call.res[3] = Idx))

\* C38: the chunk that posix_memalign returns for an alignment above 16 (and
\* up to 4096) is of a class at least as large as the size asked for,
\* whatever the size.
C38_SizeCovered ==
  \A t \in threads :
    (pc[t] = "idle" /\ ops[t] >= 1 /\ call.fn = "posix_memalign" /\ call.arg[1] > 16
       /\ ret[t].r \in Ranges) =>
      SCDOf(ret[t].r, SPIdxOf(ret[t])).ChunkSize >= call.arg[2]

TagOf(c) == MemTag[c[1]][c[2] + 1][c[3] + 1]

\* C40: with UseTag = 1 and shadow tags, the low four bits of a chunk's
\* memory tag do not come back to a value they had without the chunk having
\* been in quarantine in between and released from it by a scan that found no
\* reference to it: a memory tag changes only by an increment of one; the
\* free whose increment takes the low four bits to 0 leaves the chunk
\* QUARANTINED; and a QUARANTINED chunk becomes AVAILABLE only in the
\* post-pass of a scan, when no USED_MIXED chunk holds an address inside it.
C40_NibbleCycle ==
  /\ [][\A c \in Chunks :
          TagOf(c)' # TagOf(c) => TagOf(c)' = (TagOf(c) + 1) % 256]_vars
  /\ [][\A c \in Chunks :
          (Config.UseTag = 1 /\ Config.UseShadow /\ trap' = "none"
             /\ TagOf(c)' # TagOf(c) /\ TagOf(c)' % 16 = 0) =>
            StateOf(c)' = QUARANTINED]_vars
  /\ [][\A c \in Chunks :
          (Config.UseTag = 1 /\ Config.UseShadow /\ trap' = "none"
             /\ StateOf(c) = QUARANTINED /\ StateOf(c)' = AVAILABLE) =>
            ((\E t \in threads : PostScan(t)) /\ ~Referenced(c))]_vars

====
